---- MODULE Spec2Model ----
(***************************************************************************)
(* A model of the Bali Virtual Machine processor                           *)
(* (src/processor/VirtualMachine.js), of the instruction codec             *)
(* (src/utilities/BytecodeUtilities.js) and of the Set collection          *)
(* (src/collections/Set.js).  Each has a specification of its own: Spec,   *)
(* CodecSpec and SetSpec.                                                  *)
(*                                                                         *)
(* A "machine" is the record of everything one processor object can touch: *)
(* its task context, its current procedure context, and the environment    *)
(* (the message queue a LOAD MESSAGE reads, the published events, and the  *)
(* wait queue).  Every function of the source is an operator from machine  *)
(* to machine; a JavaScript exception is the field thrown, set with the    *)
(* mutations made before the throw kept, as they are in the source.        *)
(***************************************************************************)
EXTENDS Integers, Sequences, FiniteSets, TLC

VARIABLES
    task,              \* the persisted task document handed to fromTask
    taskContext,       \* processor.taskContext
    procedureContext,  \* processor.procedureContext
    messages,          \* the message queue named by the frame's variable 1
    events,            \* the events published through environment.publishEvent
    waitQueue,         \* the documents queued on WAIT_QUEUE
    mode,              \* where the caller of the processor is
    last,              \* what the most recent step did (history)
    left,              \* the environment as the loop of run() left it (history)
    origin,            \* the frame that was current when the resumed
                       \* document was persisted (history)
    resumes,           \* how many times a persisted document was resumed
    codec,             \* a caller of the instruction codec: the triple it
                       \* encodes, the word, and what it decodes from the word
    tree,              \* set.tree of a Set: the RandomizedTree and its nodes
    members,           \* the items added to the Set and not removed (history)
    bvm,               \* a VirtualMachine of src/bvm in processInstructions
    service,           \* the repository behind the service API and the
                       \* handler invocations in flight
    sets               \* the two Sets handed to Set.xor, and what it returns

\* the processor and its environment
machineVars == <<task, taskContext, procedureContext, messages, events,
                 waitQueue, mode, last, left, origin, resumes>>

\* the codec alone
codecVars == <<codec>>

\* a Set alone
setVars == <<tree, members>>

\* a virtual machine of src/bvm alone
bvmVars == <<bvm>>

\* the service API alone
serviceVars == <<service>>

\* the operands and the result of Set.xor alone
operandVars == <<sets>>

vars == <<task, taskContext, procedureContext, messages, events, waitQueue,
          mode, last, left, origin, resumes, codec, tree, members,
          bvm, service, sets>>

----------------------------------------------------------------------------
(* Bounds of the model. *)

\* account balances of the task documents are 0..MaxBalance
MaxBalance == 3
\* a bytecode has up to MaxWords words
MaxWords == 8
\* the number of frames on a task document's procedure stack is 1..MaxFrames
MaxFrames == 2
\* how many times a persisted task document is handed to fromTask again
MaxResumes == 1
\* how many messages the environment delivers to the queue
MaxMessages == 1
\* the items of a Set are 1..MaxItem
MaxItem == 2
\* the priorities of the nodes of a Set are 1..MaxPriority
MaxPriority == 2
\* a Set is given up to MaxNodes nodes in its life
MaxNodes == 3

----------------------------------------------------------------------------
(* Values. *)

ACTIVE == "$active"
WAITING == "$waiting"
DONE == "$done"

\* a JavaScript undefined
Undefined == "undefined"
\* a JavaScript NaN
NaN == "NaN"

TemplateNONE == "none"
TemplateTRUE == "true"
TemplateFALSE == "false"

\* the reference held by variable 1 of every frame: the queue LOAD MESSAGE reads
QueueReference == "<bali:/queue>"

----------------------------------------------------------------------------
(* The instruction codec. *)

OPCODE_MASK == 57344
MODCODE_MASK == 6144
OPERAND_MASK == 2047

RECURSIVE BitAnd(_, _)
BitAnd(a, b) ==
    IF a = 0 \/ b = 0 THEN 0
    ELSE (a % 2) * (b % 2) + 2 * BitAnd(a \div 2, b \div 2)

RECURSIVE BitOr(_, _)
BitOr(a, b) ==
    IF a = 0 THEN b
    ELSE IF b = 0 THEN a
    ELSE (IF a % 2 = 1 \/ b % 2 = 1 THEN 1 ELSE 0) + 2 * BitOr(a \div 2, b \div 2)

RECURSIVE ShiftLeft(_, _)
ShiftLeft(a, n) ==
    IF n = 0 THEN a ELSE ShiftLeft(2 * a, n - 1)

\* encodeInstruction that shifts the modifier one bit too far
encodeInstructionModifierAtBit12(operation, modifier, operand) ==
    LET opcode == BitAnd(ShiftLeft(operation, 13), OPCODE_MASK)
        modcode == BitAnd(ShiftLeft(modifier, 12), MODCODE_MASK)
    IN  BitOr(BitOr(opcode, modcode), operand)

encodeInstruction(operation, modifier, operand) ==
    LET opcode == BitAnd(ShiftLeft(operation, 13), OPCODE_MASK)
        modcode == BitAnd(ShiftLeft(modifier, 11), MODCODE_MASK)
    IN  BitOr(BitOr(opcode, modcode), operand)

\* (instruction & OPCODE_MASK) >>> 13: bits 13 to 15 of the instruction
decodeOperation(instruction) ==
    (instruction \div 8192) % 8

\* (instruction & MODCODE_MASK) >>> 11: bits 11 and 12 of the instruction
decodeModifier(instruction) ==
    (instruction \div 2048) % 4

\* instruction & OPERAND_MASK: bits 0 to 10 of the instruction
decodeOperand(instruction) ==
    instruction % (OPERAND_MASK + 1)

\* instructionIsValid that takes any POP HANDLER and POP COMPONENT, whatever
\* the operand
instructionIsValidAnyPopOperand(instruction) ==
    LET operation == decodeOperation(instruction)
        modifier == decodeModifier(instruction)
        operand == decodeOperand(instruction)
    IN  CASE operation = 0 -> operand > 0 \/ modifier = 0
          [] operation = 1 -> IF modifier \in {0, 1, 2} THEN operand > 0 ELSE FALSE
          [] operation = 2 -> modifier \in {0, 1}
          [] operation \in {3, 4, 5, 6} -> operand > 0
          [] operation = 7 -> IF modifier \in {0, 1} THEN operand = 0 ELSE FALSE
          [] OTHER -> FALSE

\* instructionIsValid: the operations are JUMP 0, PUSH 1, POP 2, LOAD 3,
\* STORE 4, INVOKE 5, EXECUTE 6, HANDLE 7, and the modifiers are numbered in
\* the order of the processor's handler table (PUSH HANDLER 0, ELEMENT 1,
\* CODE 2; POP HANDLER 0, COMPONENT 1; HANDLE EXCEPTION 0, RESULT 1)
instructionIsValid(instruction) ==
    LET operation == decodeOperation(instruction)
        modifier == decodeModifier(instruction)
        operand == decodeOperand(instruction)
    IN  CASE operation = 0 -> operand > 0 \/ modifier = 0
          [] operation = 1 -> IF modifier \in {0, 1, 2} THEN operand > 0 ELSE FALSE
          [] operation = 2 -> IF modifier \in {0, 1} THEN operand = 0 ELSE FALSE
          [] operation \in {3, 4, 5, 6} -> operand > 0
          [] operation = 7 -> IF modifier \in {0, 1} THEN operand = 0 ELSE FALSE
          [] OTHER -> FALSE

\* codex.shortToBytes: a word as its two bytes, big-endian
shortToBytes(word) ==
    <<(word \div 256) % 256, word % 256>>

\* codex.bytesToShort: the first two bytes of a byte string as a word
bytesToShort(bytes) ==
    bytes[1] * 256 + (IF Len(bytes) >= 2 THEN bytes[2] ELSE 0)

RECURSIVE bytecodeTobase16(_)
bytecodeTobase16(bytecode) ==
    IF Len(bytecode) = 0 THEN <<>>
    ELSE shortToBytes(Head(bytecode)) \o bytecodeTobase16(Tail(bytecode))

RECURSIVE base16ToBytecode(_)
base16ToBytecode(bytes) ==
    IF Len(bytes) = 0 THEN <<>>
    ELSE <<bytesToShort(bytes)>>
         \o base16ToBytecode(SubSeq(bytes, 3, Len(bytes)))

----------------------------------------------------------------------------
(* The collections of bali-primitive-types the processor uses. *)

Front(s) == SubSeq(s, 1, Len(s) - 1)

\* Stack.popItem: the top item and the stack without it; popping an empty
\* stack is a fault
popItem(stack) ==
    IF Len(stack) = 0
    THEN [thrown |-> TRUE, item |-> Undefined, stack |-> stack]
    ELSE [thrown |-> FALSE, item |-> stack[Len(stack)], stack |-> Front(stack)]

pushItem(stack, item) == Append(stack, item)

isEmpty(stack) == Len(stack) = 0

getTop(stack) == stack[Len(stack)]

\* List.getItem: indices are 1-based; an index outside the list is a fault
getItem(list, index) ==
    IF index \in 1..Len(list)
    THEN [thrown |-> FALSE, item |-> list[index]]
    ELSE [thrown |-> TRUE, item |-> Undefined]

----------------------------------------------------------------------------
(* The external collaborators (the environment built by BaliAPI). *)

\* environment.receiveMessage: the oldest message of the named queue, or
\* nothing when the queue is empty (any name but QueueReference names an
\* empty queue)
receiveMessage(m, queue) ==
    IF queue = QueueReference /\ Len(m.messages) > 0
    THEN [message |-> Head(m.messages),
          machine |-> [m EXCEPT !.messages = Tail(@)]]
    ELSE [message |-> Undefined, machine |-> m]

\* environment.queueMessage on a queue a program names
queueMessage(m, queue, message) ==
    IF queue = QueueReference
    THEN [m EXCEPT !.messages = Append(@, message)]
    ELSE m

\* environment.publishEvent
publishEvent(m, event) ==
    [m EXCEPT !.events = Append(@, event)]

----------------------------------------------------------------------------
(* Mutations of the machine the handlers share. *)

Throw(m) == [m EXCEPT !.thrown = TRUE]

\* the Error a handler throws on its first line, for an operand it does not
\* take or for an operation that is not implemented
Fault(m) == [m EXCEPT !.thrown = TRUE, !.fault = TRUE]

SetNextAddress(m, address) ==
    [m EXCEPT !.procedureContext.nextAddress = address]

SetComponentStack(m, stack) ==
    [m EXCEPT !.taskContext.componentStack = stack]

PushComponent(m, component) ==
    [m EXCEPT !.taskContext.componentStack = pushItem(@, component)]

\* a frame of the procedure stack that was made the current context without
\* importProcedure: a catalog, which has none of the context's properties
RawContext(procedure) ==
    [imported |-> FALSE, document |-> procedure, nextAddress |-> Undefined]

----------------------------------------------------------------------------
(* The instruction handlers, in the order of the dispatch table. *)

\* JUMP TO label
JumpTo(m, operand) ==
    IF operand # 0 THEN SetNextAddress(m, operand) ELSE m

\* a conditional jump that only looks at the condition when it does not jump
JumpToOnKeepsUnmatched(m, operand, template) ==
    IF operand = 0 THEN Fault(m)
    ELSE LET popped == popItem(m.taskContext.componentStack)
             m1 == SetComponentStack(m, popped.stack)
         IN  IF popped.thrown THEN Throw(m)
             ELSE IF popped.item = template THEN SetNextAddress(m1, operand)
             ELSE m

\* JUMP TO label ON NONE / ON TRUE / ON FALSE
JumpToOn(m, operand, template) ==
    IF operand = 0 THEN Fault(m)
    ELSE LET popped == popItem(m.taskContext.componentStack)
             m1 == SetComponentStack(m, popped.stack)
         IN  IF popped.thrown THEN Throw(m)
             ELSE IF popped.item = template THEN SetNextAddress(m1, operand)
             ELSE m1

\* PUSH HANDLER label
PushHandler(m, operand) ==
    IF operand = 0 THEN Fault(m)
    ELSE [m EXCEPT !.taskContext.handlerStack = pushItem(@, operand)]

\* PUSH ELEMENT literal / PUSH CODE literal
PushLiteral(m, operand) ==
    IF operand = 0 THEN Fault(m)
    ELSE LET literal == getItem(m.procedureContext.literalValues, operand)
         IN  IF literal.thrown THEN Throw(m)
             ELSE PushComponent(m, literal.item)

\* a reserved slot that does nothing
UnimplementedIgnored(m, operand) == m

\* the UNIMPLEMENTED slots of the table
Unimplemented(m, operand) == Fault(m)

\* POP HANDLER
PopHandler(m, operand) ==
    IF operand # 0 THEN Fault(m)
    ELSE LET popped == popItem(m.taskContext.handlerStack)
         IN  IF popped.thrown THEN Throw(m)
             ELSE [m EXCEPT !.taskContext.handlerStack = popped.stack]

\* POP COMPONENT
PopComponent(m, operand) ==
    IF operand # 0 THEN Fault(m)
    ELSE LET popped == popItem(m.taskContext.componentStack)
         IN  IF popped.thrown THEN Throw(m)
             ELSE SetComponentStack(m, popped.stack)

\* LOAD VARIABLE symbol
LoadVariable(m, operand) ==
    IF operand = 0 THEN Fault(m)
    ELSE LET variable == getItem(m.procedureContext.variableValues, operand)
         IN  IF variable.thrown THEN Throw(m)
             ELSE PushComponent(m, variable.item)

\* LOAD PARAMETER symbol
LoadParameter(m, operand) ==
    IF operand = 0 THEN Fault(m)
    ELSE LET parameter == getItem(m.procedureContext.parameterValues, operand)
         IN  IF parameter.thrown THEN Throw(m)
             ELSE PushComponent(m, parameter.item)

\* LOAD DOCUMENT symbol: the document (or draft) the reference in variable i
\* cites, as the repository returns it
LoadDocument(m, operand) ==
    IF operand = 0 THEN Fault(m)
    ELSE LET reference == getItem(m.procedureContext.variableValues, operand)
         IN  IF reference.thrown THEN Throw(m)
             ELSE PushComponent(m, "[document]")

\* LOAD MESSAGE that leaves nextAddress alone when the queue is empty
LoadMessageWithoutRewind(m, operand) ==
    IF operand = 0 THEN Fault(m)
    ELSE LET queue == getItem(m.procedureContext.variableValues, operand)
             received == receiveMessage(m, queue.item)
         IN  IF queue.thrown THEN Throw(m)
             ELSE IF received.message # Undefined
             THEN PushComponent(received.machine, received.message)
             ELSE [m EXCEPT !.taskContext.processorStatus = WAITING]

\* LOAD MESSAGE that steps back to the instruction also when it got a message
LoadMessageAlwaysRewinds(m, operand) ==
    IF operand = 0 THEN Fault(m)
    ELSE LET queue == getItem(m.procedureContext.variableValues, operand)
             received == receiveMessage(m, queue.item)
         IN  IF queue.thrown THEN Throw(m)
             ELSE IF received.message # Undefined
             THEN [PushComponent(received.machine, received.message)
                      EXCEPT !.procedureContext.nextAddress = @ - 1]
             ELSE [m EXCEPT !.taskContext.processorStatus = WAITING,
                            !.procedureContext.nextAddress = @ - 1]

\* LOAD MESSAGE symbol
LoadMessage(m, operand) ==
    IF operand = 0 THEN Fault(m)
    ELSE LET queue == getItem(m.procedureContext.variableValues, operand)
             received == receiveMessage(m, queue.item)
         IN  IF queue.thrown THEN Throw(m)
             ELSE IF received.message # Undefined
             THEN PushComponent(received.machine, received.message)
             ELSE [m EXCEPT !.taskContext.processorStatus = WAITING,
                            !.procedureContext.nextAddress = @ - 1]

\* STORE VARIABLE that stores into the first variable whatever its index
StoreVariableInFirstCell(m, operand) ==
    IF operand = 0 THEN Fault(m)
    ELSE LET popped == popItem(m.taskContext.componentStack)
             m1 == SetComponentStack(m, popped.stack)
         IN  IF popped.thrown THEN Throw(m)
             ELSE IF operand \in 1..Len(m.procedureContext.variableValues)
             THEN [m1 EXCEPT !.procedureContext.variableValues[1] = popped.item]
             ELSE Throw(m1)

\* STORE VARIABLE symbol
StoreVariable(m, operand) ==
    IF operand = 0 THEN Fault(m)
    ELSE LET popped == popItem(m.taskContext.componentStack)
             m1 == SetComponentStack(m, popped.stack)
         IN  IF popped.thrown THEN Throw(m)
             ELSE IF operand \in 1..Len(m.procedureContext.variableValues)
             THEN [m1 EXCEPT !.procedureContext.variableValues[operand] = popped.item]
             ELSE Throw(m1)

\* STORE DRAFT symbol
StoreDraft(m, operand) ==
    IF operand = 0 THEN Fault(m)
    ELSE LET popped == popItem(m.taskContext.componentStack)
             m1 == SetComponentStack(m, popped.stack)
             reference == getItem(m.procedureContext.variableValues, operand)
         IN  IF popped.thrown THEN Throw(m)
             ELSE IF reference.thrown THEN Throw(m1)
             ELSE m1

\* STORE DOCUMENT symbol: the variable is set to the citation of the commit
StoreDocument(m, operand) ==
    IF operand = 0 THEN Fault(m)
    ELSE LET popped == popItem(m.taskContext.componentStack)
             m1 == SetComponentStack(m, popped.stack)
             reference == getItem(m.procedureContext.variableValues, operand)
         IN  IF popped.thrown THEN Throw(m)
             ELSE IF reference.thrown THEN Throw(m1)
             ELSE [m1 EXCEPT !.procedureContext.variableValues[operand] =
                                 "<bali:/citation>"]

\* STORE MESSAGE symbol
StoreMessage(m, operand) ==
    IF operand = 0 THEN Fault(m)
    ELSE LET popped == popItem(m.taskContext.componentStack)
             m1 == SetComponentStack(m, popped.stack)
             queue == getItem(m.procedureContext.variableValues, operand)
         IN  IF popped.thrown THEN Throw(m)
             ELSE IF queue.thrown THEN Throw(m1)
             ELSE queueMessage(m1, queue.item, popped.item)

\* the parameters of a call, written one after the other
RECURSIVE Listed(_)
Listed(parameters) ==
    IF Len(parameters) = 0 THEN ""
    ELSE IF Len(parameters) = 1 THEN Head(parameters)
    ELSE Head(parameters) \o "," \o Listed(Tail(parameters))

\* intrinsics.intrinsicFunctions[index].apply(processor, parameters): the
\* value the function at position index of the JavaScript array (the first
\* is at position 0) returns for the parameters, as the text of the call
intrinsicFunctions(index, parameters) ==
    "$intrinsic" \o ToString(index) \o "(" \o Listed(parameters) \o ")"

\* pops that put each popped item in front of the items popped before it
RECURSIVE PopParametersLastFirst(_, _)
PopParametersLastFirst(stack, n) ==
    IF n = 0 THEN [thrown |-> FALSE, stack |-> stack, parameters |-> <<>>]
    ELSE LET popped == popItem(stack)
             rest == PopParametersLastFirst(popped.stack, n - 1)
         IN  IF popped.thrown
             THEN [thrown |-> TRUE, stack |-> stack, parameters |-> <<>>]
             ELSE [thrown |-> rest.thrown, stack |-> rest.stack,
                   parameters |-> rest.parameters \o <<popped.item>>]

\* the component stack after n pops, n in 0..3, with the popped items in pop
\* order; thrown when the stack holds fewer than n items
RECURSIVE PopParameters(_, _)
PopParameters(stack, n) ==
    IF n = 0 THEN [thrown |-> FALSE, stack |-> stack, parameters |-> <<>>]
    ELSE LET popped == popItem(stack)
             rest == PopParameters(popped.stack, n - 1)
         IN  IF popped.thrown
             THEN [thrown |-> TRUE, stack |-> stack, parameters |-> <<>>]
             ELSE [thrown |-> rest.thrown, stack |-> rest.stack,
                   parameters |-> <<popped.item>> \o rest.parameters]

\* INVOKE symbol (WITH 1, 2, 3 PARAMETERS)
Invoke(m, operand, arity) ==
    IF operand = 0 THEN Fault(m)
    ELSE LET popped == PopParameters(m.taskContext.componentStack, arity)
             m1 == SetComponentStack(m, popped.stack)
         IN  IF popped.thrown THEN Throw(m1)
             ELSE PushComponent(m1, intrinsicFunctions(operand, popped.parameters))

\* INVOKE symbol of the other virtual machine (src/bvm): the function at
\* position index - 1 of the same table, called without parameters
bvmInvoke(components, operand) ==
    pushItem(components, intrinsicFunctions(operand - 1, <<>>))

\* EXECUTE symbol: the type reference is popped, and the call of
\* processor.extractVariables, which the processor does not define, throws
Execute(m, operand) ==
    IF operand = 0 THEN Fault(m)
    ELSE LET popped == popItem(m.taskContext.componentStack)
         IN  IF popped.thrown THEN Throw(m)
             ELSE Throw(SetComponentStack(m, popped.stack))

\* EXECUTE symbol WITH PARAMETERS: the type reference and the parameters are
\* popped, and the call of this.extractParameters, which the handler table
\* does not define, throws
ExecuteWithParameters(m, operand) ==
    IF operand = 0 THEN Fault(m)
    ELSE LET reference == popItem(m.taskContext.componentStack)
             parameters == popItem(reference.stack)
         IN  IF reference.thrown THEN Throw(m)
             ELSE IF parameters.thrown
             THEN Throw(SetComponentStack(m, reference.stack))
             ELSE Throw(SetComponentStack(m, parameters.stack))

\* EXECUTE symbol ON TARGET (WITH PARAMETERS): the target is popped, and the
\* call of this.extractType, which the handler table does not define, throws
ExecuteOnTarget(m, operand) ==
    IF operand = 0 THEN Fault(m)
    ELSE LET popped == popItem(m.taskContext.componentStack)
         IN  IF popped.thrown THEN Throw(m)
             ELSE Throw(SetComponentStack(m, popped.stack))

\* the inner loop of HANDLE EXCEPTION: every handler address is popped and
\* assigned to nextAddress in turn
RECURSIVE PopHandlers(_)
PopHandlers(m) ==
    IF isEmpty(m.taskContext.handlerStack) THEN m
    ELSE LET popped == popItem(m.taskContext.handlerStack)
         IN  PopHandlers([m EXCEPT !.taskContext.handlerStack = popped.stack,
                                   !.procedureContext.nextAddress = popped.item])

\* the outer loop of HANDLE EXCEPTION
RECURSIVE Unwind(_)
Unwind(m) ==
    IF isEmpty(m.taskContext.procedureStack) THEN m
    ELSE LET m1 == PopHandlers(m)
             exception == popItem(m1.taskContext.componentStack)
             m2 == SetComponentStack(m1, exception.stack)
             frame == popItem(m2.taskContext.procedureStack)
             m3 == [m2 EXCEPT !.taskContext.procedureStack = frame.stack]
         IN  IF exception.thrown THEN Throw(m1)
             ELSE IF isEmpty(m3.taskContext.procedureStack)
             THEN [m3 EXCEPT !.taskContext.exception = exception.item,
                             !.taskContext.processorStatus = DONE]
             ELSE Unwind(PushComponent(
                      [m3 EXCEPT !.procedureContext =
                                     RawContext(getTop(m3.taskContext.procedureStack))],
                      exception.item))

\* HANDLE EXCEPTION
HandleException(m, operand) ==
    IF operand # 0 THEN Fault(m) ELSE Unwind(m)

\* HANDLE RESULT
HandleResult(m, operand) ==
    IF operand # 0 THEN Fault(m)
    ELSE LET result == popItem(m.taskContext.componentStack)
             m1 == SetComponentStack(m, result.stack)
             frame == popItem(m1.taskContext.procedureStack)
             m2 == [m1 EXCEPT !.taskContext.procedureStack = frame.stack]
         IN  IF result.thrown THEN Throw(m)
             ELSE IF frame.thrown THEN Throw(m1)
             ELSE IF isEmpty(m2.taskContext.procedureStack)
             THEN [m2 EXCEPT !.taskContext.result = result.item,
                             !.taskContext.processorStatus = DONE]
             ELSE PushComponent(
                      [m2 EXCEPT !.procedureContext =
                                     RawContext(getTop(m2.taskContext.procedureStack))],
                      result.item)

\* instructionHandlers[index](processor, operand)
instructionHandlers(index, m, operand) ==
    CASE index = 0 -> JumpTo(m, operand)
      [] index = 1 -> JumpToOn(m, operand, TemplateNONE)
      [] index = 2 -> JumpToOn(m, operand, TemplateTRUE)
      [] index = 3 -> JumpToOn(m, operand, TemplateFALSE)
      [] index = 4 -> PushHandler(m, operand)
      [] index = 5 -> PushLiteral(m, operand)
      [] index = 6 -> PushLiteral(m, operand)
      [] index = 7 -> Unimplemented(m, operand)
      [] index = 8 -> PopHandler(m, operand)
      [] index = 9 -> PopComponent(m, operand)
      [] index = 10 -> Unimplemented(m, operand)
      [] index = 11 -> Unimplemented(m, operand)
      [] index = 12 -> LoadVariable(m, operand)
      [] index = 13 -> LoadParameter(m, operand)
      [] index = 14 -> LoadDocument(m, operand)
      [] index = 15 -> LoadMessage(m, operand)
      [] index = 16 -> StoreVariable(m, operand)
      [] index = 17 -> StoreDraft(m, operand)
      [] index = 18 -> StoreDocument(m, operand)
      [] index = 19 -> StoreMessage(m, operand)
      [] index = 20 -> Invoke(m, operand, 0)
      [] index = 21 -> Invoke(m, operand, 1)
      [] index = 22 -> Invoke(m, operand, 2)
      [] index = 23 -> Invoke(m, operand, 3)
      [] index = 24 -> Execute(m, operand)
      [] index = 25 -> ExecuteWithParameters(m, operand)
      [] index = 26 -> ExecuteOnTarget(m, operand)
      [] index = 27 -> ExecuteOnTarget(m, operand)
      [] index = 28 -> HandleException(m, operand)
      [] index = 29 -> HandleResult(m, operand)
      [] index = 30 -> Unimplemented(m, operand)
      [] index = 31 -> Unimplemented(m, operand)

----------------------------------------------------------------------------
(* Import and export of the task and of its frames. *)

importTask(document) ==
    [taskTag |-> document.taskTag,
     accountTag |-> document.accountTag,
     accountBalance |-> document.accountBalance,
     processorStatus |-> document.processorStatus,
     clockCycles |-> document.clockCycles,
     componentStack |-> document.componentStack,
     handlerStack |-> document.handlerStack,
     procedureStack |-> document.procedureStack,
     result |-> Undefined,
     exception |-> Undefined]

\* Catalog.fromCollection(taskContext): a catalog of the properties of the
\* task context, and of nothing else
exportTask(context) ==
    [taskTag |-> context.taskTag,
     accountTag |-> context.accountTag,
     accountBalance |-> context.accountBalance,
     processorStatus |-> context.processorStatus,
     clockCycles |-> context.clockCycles,
     componentStack |-> context.componentStack,
     handlerStack |-> context.handlerStack,
     procedureStack |-> context.procedureStack,
     result |-> context.result,
     exception |-> context.exception]

importProcedure(procedure) ==
    [imported |-> TRUE,
     targetComponent |-> procedure.targetComponent,
     typeReference |-> procedure.typeReference,
     procedureName |-> procedure.procedureName,
     parameterValues |-> procedure.parameterValues,
     literalValues |-> procedure.literalValues,
     variableValues |-> procedure.variableValues,
     bytecodeInstructions |-> base16ToBytecode(procedure.bytecodeInstructions),
     nextAddress |-> procedure.nextAddress,
     currentInstruction |-> -1]

\* the machine before any processor exists
NoTaskContext ==
    [taskTag |-> Undefined, accountTag |-> Undefined, accountBalance |-> 0,
     processorStatus |-> Undefined, clockCycles |-> 0, componentStack |-> <<>>,
     handlerStack |-> <<>>, procedureStack |-> <<>>, result |-> Undefined,
     exception |-> Undefined]

NoProcedureContext == RawContext(Undefined)

\* exports.fromTask: the processor for a task document, in environment env
fromTask(document, env) ==
    LET context == importTask(document)
        popped == popItem(context.procedureStack)
    IN  IF popped.thrown
        THEN [taskContext |-> NoTaskContext,
              procedureContext |-> NoProcedureContext,
              messages |-> env.messages, events |-> env.events,
              waitQueue |-> env.waitQueue, thrown |-> TRUE, fault |-> FALSE]
        ELSE [taskContext |-> [context EXCEPT !.procedureStack = popped.stack],
              procedureContext |-> importProcedure(popped.item),
              messages |-> env.messages, events |-> env.events,
              waitQueue |-> env.waitQueue, thrown |-> FALSE, fault |-> FALSE]

----------------------------------------------------------------------------
(* The processor loop. *)

\* isRunnable that lets a task with no tokens left go on
isRunnableWithoutTokens(m) ==
    IF ~m.procedureContext.imported
    THEN [thrown |-> TRUE, value |-> FALSE]
    ELSE [thrown |-> FALSE,
          value |-> /\ m.procedureContext.nextAddress * 4 <=
                          Len(m.procedureContext.bytecodeInstructions)
                    /\ m.taskContext.processorStatus = ACTIVE
                    /\ m.taskContext.accountBalance >= 0]

\* isRunnable that stops a task one token early
isRunnableAboveOneToken(m) ==
    IF ~m.procedureContext.imported
    THEN [thrown |-> TRUE, value |-> FALSE]
    ELSE [thrown |-> FALSE,
          value |-> /\ m.procedureContext.nextAddress * 4 <=
                          Len(m.procedureContext.bytecodeInstructions)
                    /\ m.taskContext.processorStatus = ACTIVE
                    /\ m.taskContext.accountBalance > 1]

\* isRunnable: reading bytecodeInstructions.length of a context that is a
\* catalog throws
isRunnable(m) ==
    IF ~m.procedureContext.imported
    THEN [thrown |-> TRUE, value |-> FALSE]
    ELSE LET hasInstructions ==
                 m.procedureContext.nextAddress * 4 <=
                     Len(m.procedureContext.bytecodeInstructions)
             isActive == m.taskContext.processorStatus = ACTIVE
             hasTokens == m.taskContext.accountBalance > 0
         IN  [thrown |-> FALSE,
              value |-> hasInstructions /\ isActive /\ hasTokens]

\* fetchInstruction: a word outside the array reads as undefined, which
\* decodes as 0
fetchInstruction(m) ==
    LET runnable == isRunnable(m)
        nextAddress == m.procedureContext.nextAddress
        bytecode == m.procedureContext.bytecodeInstructions
        currentInstruction ==
            IF nextAddress \in 1..Len(bytecode) THEN bytecode[nextAddress] ELSE 0
    IN  IF runnable.thrown THEN [fetched |-> FALSE, machine |-> Throw(m)]
        ELSE IF runnable.value
        THEN [fetched |-> TRUE,
              machine |-> [m EXCEPT !.procedureContext.currentInstruction =
                                        currentInstruction]]
        ELSE [fetched |-> FALSE, machine |-> m]

\* an update that charges nothing for an instruction that left the task waiting
updateStateUnlessWaiting(m) ==
    IF m.taskContext.processorStatus = WAITING
    THEN [m EXCEPT !.procedureContext.nextAddress = @ + 1]
    ELSE [m EXCEPT !.taskContext.clockCycles = @ + 1,
                   !.taskContext.accountBalance = @ - 1,
                   !.procedureContext.nextAddress =
                       IF m.procedureContext.imported THEN @ + 1 ELSE NaN]

\* the update of the task context that ends executeInstruction
updateState(m) ==
    [m EXCEPT !.taskContext.clockCycles = @ + 1,
              !.taskContext.accountBalance = @ - 1,
              !.procedureContext.nextAddress =
                  IF m.procedureContext.imported THEN @ + 1 ELSE NaN]

executeInstruction(m) ==
    LET instruction == m.procedureContext.currentInstruction
        operation == decodeOperation(instruction)
        modifier == decodeModifier(instruction)
        operand == decodeOperand(instruction)
        index == operation * 4 + modifier  \* (operation << 2) | modifier
        handled == instructionHandlers(index, m, operand)
    IN  IF handled.thrown THEN handled ELSE updateState(handled)

\* processor.step()
step(m) ==
    LET fetch == fetchInstruction(m)
    IN  IF fetch.fetched
        THEN [wasFetched |-> TRUE, machine |-> executeInstruction(fetch.machine)]
        ELSE [wasFetched |-> FALSE, machine |-> fetch.machine]

publishCompletionEvent(m) ==
    IF m.taskContext.result = Undefined
    THEN Throw(m)
    ELSE publishEvent(m, [eventType |-> "$completion",
                          taskTag |-> m.taskContext.taskTag,
                          accountTag |-> m.taskContext.accountTag,
                          accountBalance |-> m.taskContext.accountBalance,
                          clockCycles |-> m.taskContext.clockCycles,
                          result |-> m.taskContext.result])

publishSuspensionEvent(m) ==
    publishEvent(m, [eventType |-> "$suspension",
                     taskTag |-> Undefined,
                     taskContext |-> exportTask(m.taskContext)])

queueTaskContext(m) ==
    [m EXCEPT !.waitQueue = Append(@, exportTask(m.taskContext))]

finalizeProcessing(m) ==
    CASE m.taskContext.processorStatus = ACTIVE -> publishSuspensionEvent(m)
      [] m.taskContext.processorStatus = WAITING -> queueTaskContext(m)
      [] m.taskContext.processorStatus = DONE -> publishCompletionEvent(m)
      [] OTHER -> m

\* the loop of processor.run()
RECURSIVE runLoop(_)
runLoop(m) ==
    LET iteration == step(m)
    IN  IF iteration.machine.thrown \/ ~iteration.wasFetched
        THEN iteration.machine
        ELSE runLoop(iteration.machine)

\* processor.run()
run(m) ==
    LET looped == runLoop(m)
    IN  IF looped.thrown THEN looped ELSE finalizeProcessing(looped)

----------------------------------------------------------------------------
(* The task documents the model starts from. *)

SKIP == encodeInstruction(0, 0, 0)
JUMP_TO_2 == encodeInstruction(0, 0, 2)
JUMP_TO_2047 == encodeInstruction(0, 0, OPERAND_MASK)
PUSH_HANDLER_2 == encodeInstruction(1, 0, 2)
PUSH_ELEMENT_1 == encodeInstruction(1, 1, 1)
UNIMPLEMENTED_PUSH == encodeInstruction(1, 3, 0)
POP_COMPONENT == encodeInstruction(2, 1, 0)
LOAD_MESSAGE_1 == encodeInstruction(3, 3, 1)
STORE_VARIABLE_1 == encodeInstruction(4, 0, 1)
EXECUTE_1 == encodeInstruction(6, 0, 1)
HANDLE_EXCEPTION == encodeInstruction(7, 0, 0)
HANDLE_RESULT == encodeInstruction(7, 1, 0)

\* the words a bytecode is made of
Words ==
    {SKIP, JUMP_TO_2, JUMP_TO_2047, PUSH_HANDLER_2, PUSH_ELEMENT_1,
     UNIMPLEMENTED_PUSH, POP_COMPONENT, LOAD_MESSAGE_1, STORE_VARIABLE_1,
     EXECUTE_1, HANDLE_EXCEPTION, HANDLE_RESULT}

\* INVOKE index (WITH arity PARAMETERS)
INVOKE(index, arity) == encodeInstruction(5, arity, index)

\* the INVOKE words of every arity
InvokeWords == {INVOKE(index, arity) : index \in {1, 2}, arity \in 0..3}

\* a head followed by SKIP instructions, n words in all
Padded(head, n) ==
    [i \in 1..n |-> IF i <= Len(head) THEN head[i] ELSE SKIP]

\* isRunnable lets the processor fetch the words at addresses 1..(n \div 4) of
\* a bytecode of n words only: those words vary (and the one word of a
\* bytecode of one word), the words after them are SKIP instructions
BytecodesOf(n) ==
    {Padded(head, n) : head \in [1..(IF n < 4 THEN 1 ELSE n \div 4) -> Words]}

Bytecodes == BytecodesOf(1) \cup BytecodesOf(4) \cup BytecodesOf(MaxWords)

\* procedures that call intrinsic functions: one INVOKE, or two of function 1
InvokeBytecodes ==
    {Padded(<<word>>, 4) : word \in InvokeWords}
        \cup {Padded(<<INVOKE(1, first), INVOKE(1, second)>>, MaxWords) :
                  first \in 0..3, second \in 0..3}

\* JUMP TO label ON NONE (1), ON TRUE (2), ON FALSE (3)
JUMP_ON(modifier, label) == encodeInstruction(0, modifier, label)

\* procedures that start with a conditional jump
JumpBytecodes ==
    {Padded(<<JUMP_ON(modifier, 2)>>, MaxWords) : modifier \in 1..3}

\* procedures that raise an exception with their first or second instruction
UnwindBytecodes ==
    {bytecode \in BytecodesOf(4) \cup BytecodesOf(MaxWords) :
         bytecode[1] \in {HANDLE_EXCEPTION, PUSH_HANDLER_2, PUSH_ELEMENT_1}}

procedureDocument(bytecode, nextAddress) ==
    [targetComponent |-> TemplateNONE,
     typeReference |-> "<bali:/type>",
     procedureName |-> "$procedure",
     parameterValues |-> <<>>,
     literalValues |-> <<"$hello">>,
     variableValues |-> <<QueueReference>>,
     bytecodeInstructions |-> bytecodeTobase16(bytecode),
     nextAddress |-> nextAddress]

\* the frame of a caller: it pushed a literal and called, and resumes at 3
CallerDocument ==
    procedureDocument(Padded(<<PUSH_ELEMENT_1, SKIP, HANDLE_RESULT>>, 12), 3)

\* the address of the handler of a caller that installed one
HandlerAddress == 5

\* the frame of a caller that installed a handler before it called: it
\* resumes at 4, and its handler (which drops the exception) is at 5
HandlingCallerDocument ==
    procedureDocument(
        Padded(<<encodeInstruction(1, 0, HandlerAddress), PUSH_ELEMENT_1,
                 EXECUTE_1, HANDLE_RESULT, POP_COMPONENT>>, 12), 4)

\* a procedure stack of the given depth: callers below the current frame
ProcedureStack(depth, bytecode) ==
    [i \in 1..depth |->
        IF i < depth THEN CallerDocument ELSE procedureDocument(bytecode, 1)]

\* a procedure stack whose current frame was called by a caller that
\* installed a handler
HandlingProcedureStack(depth, bytecode) ==
    [i \in 1..depth |->
        IF i < depth - 1 THEN CallerDocument
        ELSE IF i = depth - 1 THEN HandlingCallerDocument
        ELSE procedureDocument(bytecode, 1)]

TaskDocument(balance, components, handlers, procedures) ==
    [taskTag |-> "#task",
     accountTag |-> "#account",
     accountBalance |-> balance,
     processorStatus |-> ACTIVE,
     clockCycles |-> 0,
     componentStack |-> components,
     handlerStack |-> handlers,
     procedureStack |-> procedures,
     result |-> Undefined,
     exception |-> Undefined]

\* tasks at the first instruction of a procedure
GeneralDocuments ==
    {TaskDocument(balance, components, <<>>, ProcedureStack(depth, bytecode)) :
        balance \in 0..MaxBalance,
        components \in {<<>>, <<"$good">>},
        depth \in 1..MaxFrames,
        bytecode \in Bytecodes}

\* tasks about to call intrinsic functions, with components on the stack
InvokeDocuments ==
    {TaskDocument(balance, <<"$a", "$b", "$c", "$d">>, <<>>,
                  ProcedureStack(depth, bytecode)) :
        balance \in 0..MaxBalance,
        depth \in 1..MaxFrames,
        bytecode \in InvokeBytecodes}

\* tasks in a procedure whose caller installed a handler
UnwindDocuments ==
    {TaskDocument(balance, components, <<HandlerAddress>>,
                  HandlingProcedureStack(depth, bytecode)) :
        balance \in 0..MaxBalance,
        components \in {<<>>, <<"$good">>},
        depth \in 2..MaxFrames,
        bytecode \in UnwindBytecodes}

\* tasks about to jump on the condition on top of the stack
JumpDocuments ==
    {TaskDocument(balance, <<"$a", condition>>, <<>>,
                  ProcedureStack(depth, bytecode)) :
        balance \in 0..MaxBalance,
        condition \in {TemplateNONE, TemplateTRUE, TemplateFALSE, "$good"},
        depth \in 1..MaxFrames,
        bytecode \in JumpBytecodes}

\* STORE VARIABLE index
STORE_VARIABLE(index) == encodeInstruction(4, 0, index)

\* procedures that start with two STORE VARIABLE instructions; index 3 is
\* not a variable of the frame
StoreBytecodes ==
    {Padded(<<STORE_VARIABLE(first), STORE_VARIABLE(second)>>, MaxWords) :
         first \in 1..3, second \in 1..3}

\* a frame with two variables and a parameter
storingDocument(bytecode) ==
    [procedureDocument(bytecode, 1) EXCEPT
         !.variableValues = <<QueueReference, "$old">>,
         !.parameterValues = <<"$parameter">>]

\* tasks about to store into the variables of a frame that has a caller
StoreDocuments ==
    {TaskDocument(balance, <<"$a", "$b">>, <<>>,
                  <<CallerDocument, storingDocument(bytecode)>>) :
        balance \in 0..MaxBalance,
        bytecode \in StoreBytecodes}

\* procedures that return or raise with their first instruction
ReturnBytecodes ==
    {Padded(<<word>>, 4) : word \in {HANDLE_RESULT, HANDLE_EXCEPTION}}

\* tasks about to return or raise through a caller that has a caller itself
DeepDocuments ==
    {TaskDocument(balance, <<"$good">>, <<>>,
                  ProcedureStack(MaxFrames + 1, bytecode)) :
        balance \in 0..MaxBalance,
        bytecode \in ReturnBytecodes}

TaskDocuments ==
    GeneralDocuments \cup InvokeDocuments \cup UnwindDocuments
        \cup JumpDocuments \cup StoreDocuments \cup DeepDocuments

----------------------------------------------------------------------------
(* The state machine. *)

Machine ==
    [taskContext |-> taskContext, procedureContext |-> procedureContext,
     messages |-> messages, events |-> events, waitQueue |-> waitQueue,
     thrown |-> mode = "thrown", fault |-> FALSE]

NoMachine ==
    [taskContext |-> NoTaskContext, procedureContext |-> NoProcedureContext,
     messages |-> <<>>, events |-> <<>>, waitQueue |-> <<>>, thrown |-> FALSE,
     fault |-> FALSE]

\* the part of a machine an instruction reads and writes
Snapshot(m) ==
    [taskContext |-> m.taskContext, procedureContext |-> m.procedureContext,
     messages |-> m.messages]

NoInstruction ==
    [kind |-> "none", fetched |-> FALSE, completed |-> FALSE, index |-> -1,
     operand |-> -1, before |-> Snapshot(NoMachine)]

NotLeft ==
    [happened |-> FALSE, events |-> <<>>, waitQueue |-> <<>>, messages |-> <<>>]

Install(m) ==
    /\ taskContext' = m.taskContext
    /\ procedureContext' = m.procedureContext
    /\ messages' = m.messages
    /\ events' = m.events
    /\ waitQueue' = m.waitQueue

\* what a step did: the handler index of the word it fetched, and whether
\* executeInstruction returned
Instruction(kind, m, stepped) ==
    [kind |-> kind,
     fetched |-> stepped.wasFetched,
     completed |-> stepped.wasFetched /\ ~stepped.machine.thrown,
     index |-> IF stepped.wasFetched
               THEN LET word == fetchInstruction(m).machine.procedureContext.currentInstruction
                    IN  decodeOperation(word) * 4 + decodeModifier(word)
               ELSE -1,
     operand |-> IF stepped.wasFetched
                 THEN decodeOperand(
                          fetchInstruction(m).machine.procedureContext.currentInstruction)
                 ELSE -1,
     before |-> Snapshot(m)]

\* no caller of the codec
NoCodec == [stage |-> "none"]

\* no Set
NoTree == [stage |-> "none"]

\* no virtual machine of src/bvm is running
NoBvm == [stage |-> "none"]

\* the service API is not deployed
NoService == [stage |-> "none"]

\* Set.xor is not called
NoSets == [stage |-> "none"]

Init ==
    /\ task \in TaskDocuments
    /\ taskContext = NoTaskContext
    /\ procedureContext = NoProcedureContext
    /\ messages \in {<<>>, <<"$message">>}
    /\ events = <<>>
    /\ waitQueue = <<>>
    /\ mode = "document"
    /\ last = NoInstruction
    /\ left = NotLeft
    /\ origin = NoProcedureContext
    /\ resumes = 0
    /\ codec = NoCodec
    /\ tree = NoTree
    /\ bvm = NoBvm
    /\ service = NoService
    /\ sets = NoSets
    /\ members = {}

\* VirtualMachine.fromTask(task)
FromTask ==
    /\ mode = "document"
    /\ LET m == fromTask(task, Machine)
       IN  /\ Install(m)
           /\ mode' = IF m.thrown THEN "thrown" ELSE "ready"
    /\ last' = NoInstruction
    /\ left' = NotLeft
    /\ UNCHANGED <<task, origin, resumes>>
    /\ UNCHANGED <<codecVars, setVars, bvmVars, serviceVars, operandVars>>

\* processor.step()
Step ==
    /\ mode = "ready"
    /\ LET stepped == step(Machine)
       IN  /\ Install(stepped.machine)
           /\ mode' = IF stepped.machine.thrown THEN "thrown" ELSE "ready"
           /\ last' = Instruction("step", Machine, stepped)
    /\ UNCHANGED <<task, left, origin, resumes>>
    /\ UNCHANGED <<codecVars, setVars, bvmVars, serviceVars, operandVars>>

\* one turn of the loop of processor.run(): an instruction is fetched and
\* executed, or the fetch throws
RunStep ==
    /\ mode \in {"ready", "running"}
    /\ LET stepped == step(Machine)
       IN  /\ stepped.wasFetched \/ stepped.machine.thrown
           /\ Install(stepped.machine)
           /\ mode' = IF stepped.machine.thrown THEN "thrown" ELSE "running"
           /\ last' = Instruction("run", Machine, stepped)
    /\ UNCHANGED <<task, left, origin, resumes>>
    /\ UNCHANGED <<codecVars, setVars, bvmVars, serviceVars, operandVars>>

\* the loop of processor.run() ends and finalizeProcessing is called
RunFinalize ==
    /\ mode \in {"ready", "running"}
    /\ LET stepped == step(Machine)
           m == finalizeProcessing(Machine)
       IN  /\ ~stepped.wasFetched /\ ~stepped.machine.thrown
           /\ Install(m)
           /\ mode' = IF m.thrown THEN "thrown" ELSE "finalized"
           /\ left' = [happened |-> TRUE, events |-> events,
                        waitQueue |-> waitQueue, messages |-> messages]
    /\ UNCHANGED <<task, last, origin, resumes>>
    /\ UNCHANGED <<codecVars, setVars, bvmVars, serviceVars, operandVars>>

\* the balances a supervisor gives a persisted task before it is resumed
Balances(document) == {0, document.accountBalance, MaxBalance}

\* the processor that ran is dropped and its document is handed to fromTask
Resume(document) ==
    /\ \E balance \in Balances(document) :
           task' = [document EXCEPT !.accountBalance = balance]
    /\ mode' = "document"
    /\ origin' = procedureContext
    /\ resumes' = resumes + 1
    /\ taskContext' = NoTaskContext
    /\ procedureContext' = NoProcedureContext
    /\ last' = NoInstruction
    /\ left' = NotLeft
    /\ UNCHANGED <<codecVars, setVars, bvmVars, serviceVars, operandVars>>

\* a new virtual machine takes the oldest task of the wait queue
ResumeWaiting ==
    /\ mode = "finalized"
    /\ resumes < MaxResumes
    /\ Len(waitQueue) > 0
    /\ Resume(Head(waitQueue))
    /\ waitQueue' = Tail(waitQueue)
    /\ UNCHANGED <<messages, events>>

\* a new virtual machine takes the task context of the latest suspension event
ResumeSuspended ==
    /\ mode = "finalized"
    /\ resumes < MaxResumes
    /\ Len(events) > 0
    /\ events[Len(events)].eventType = "$suspension"
    /\ Resume(events[Len(events)].taskContext)
    /\ UNCHANGED <<messages, events, waitQueue>>

\* a message arrives on the queue while no processor runs
DeliverMessage ==
    /\ mode = "finalized"
    /\ Len(messages) < MaxMessages
    /\ messages' = Append(messages, "$message")
    /\ UNCHANGED <<task, taskContext, procedureContext, events, waitQueue, mode,
                   last, left, origin, resumes>>
    /\ UNCHANGED <<codecVars, setVars, bvmVars, serviceVars, operandVars>>

Next ==
    \/ FromTask
    \/ Step
    \/ RunStep
    \/ RunFinalize
    \/ ResumeWaiting
    \/ ResumeSuspended
    \/ DeliverMessage

Spec == Init /\ [][Next]_vars

----------------------------------------------------------------------------
(* The codec on its own: a caller encodes a triple, then decodes the word or *)
(* asks whether it is valid.                                                 *)

\* the operations, modifiers and operands that fit the three fields of a word
Operations == 0..(OPCODE_MASK \div 8192)
Modifiers == 0..(MODCODE_MASK \div 2048)
Operands == 0..OPERAND_MASK

\* no processor exists
NoProcessor ==
    /\ task = NoTaskContext
    /\ taskContext = NoTaskContext
    /\ procedureContext = NoProcedureContext
    /\ messages = <<>>
    /\ events = <<>>
    /\ waitQueue = <<>>
    /\ mode = "none"
    /\ last = NoInstruction
    /\ left = NotLeft
    /\ origin = NoProcedureContext
    /\ resumes = 0

CodecInit ==
    /\ codec \in [stage : {"triple"}, operation : Operations,
                  modifier : Modifiers, operand : Operands,
                  instruction : {-1}, decodedOperation : {-1},
                  decodedModifier : {-1}, decodedOperand : {-1},
                  valid : {FALSE}]
    /\ NoProcessor
    /\ tree = NoTree
    /\ bvm = NoBvm
    /\ service = NoService
    /\ sets = NoSets
    /\ members = {}

\* encodeInstruction(operation, modifier, operand)
Encode ==
    /\ codec.stage = "triple"
    /\ codec' = [codec EXCEPT
                     !.stage = "encoded",
                     !.instruction = encodeInstruction(codec.operation,
                                                       codec.modifier,
                                                       codec.operand)]
    /\ UNCHANGED <<machineVars, setVars, bvmVars, serviceVars, operandVars>>

\* decodeOperation, decodeModifier and decodeOperand of the word
Decode ==
    /\ codec.stage = "encoded"
    /\ codec' = [codec EXCEPT
                     !.stage = "decoded",
                     !.decodedOperation = decodeOperation(codec.instruction),
                     !.decodedModifier = decodeModifier(codec.instruction),
                     !.decodedOperand = decodeOperand(codec.instruction)]
    /\ UNCHANGED <<machineVars, setVars, bvmVars, serviceVars, operandVars>>

\* instructionIsValid of the word
Validate ==
    /\ codec.stage = "encoded"
    /\ codec' = [codec EXCEPT
                     !.stage = "validated",
                     !.valid = instructionIsValid(codec.instruction)]
    /\ UNCHANGED <<machineVars, setVars, bvmVars, serviceVars, operandVars>>

CodecNext ==
    \/ Encode
    \/ Decode
    \/ Validate

CodecSpec == CodecInit /\ [][CodecNext]_vars

----------------------------------------------------------------------------
(* The Set collection: a RandomizedTree (a treap) of nodes.  A node is a     *)
(* record of the sequence tree.nodes and is named by its index; 0 is the     *)
(* undefined of a missing node, and of the value of a node remove() cleared. *)

\* a node as insert() makes it
Node(value, parent, priority) ==
    [value |-> value, priority |-> priority, parent |-> parent,
     left |-> 0, right |-> 0]

\* item.compareTo(that) of the items, which are numbers here
compareTo(this, that) ==
    IF this < that THEN -1 ELSE IF this = that THEN 0 ELSE 1

\* new RandomizedTree(): globalRoot is the global variable root that the
\* rotations assign
RandomizedTree ==
    [stage |-> "set", root |-> 0, size |-> 0, nodes |-> <<>>, globalRoot |-> 0,
     thrown |-> FALSE, failed |-> FALSE]

\* a TypeError leaves the method with the tree as it is by then
ThrowTypeError(t) == [t EXCEPT !.thrown = TRUE, !.failed = TRUE]

\* the loop of RandomizedTree.prototype.find, from a candidate down
RECURSIVE findFrom(_, _, _)
findFrom(t, candidate, value) ==
    IF candidate = 0 \/ t.nodes[candidate].value = 0 THEN candidate
    ELSE LET signum == compareTo(t.nodes[candidate].value, value)
         IN  CASE signum = -1 -> findFrom(t, t.nodes[candidate].left, value)
               [] signum = 0 -> candidate
               [] signum = 1 -> findFrom(t, t.nodes[candidate].right, value)

find(t, value) == findFrom(t, t.root, value)

\* the first loop of insert: the last candidate that has a value
RECURSIVE findParent(_, _, _, _)
findParent(t, parent, candidate, value) ==
    IF candidate = 0 \/ t.nodes[candidate].value = 0 THEN parent
    ELSE IF compareTo(t.nodes[candidate].value, value) = -1
         THEN findParent(t, candidate, t.nodes[candidate].left, value)
         ELSE findParent(t, candidate, t.nodes[candidate].right, value)

\* the end of both rotations: temporary takes the place of node under the
\* parent of node, or is assigned to the global variable root
Reparent(t, node, temporary) ==
    LET parent == t.nodes[temporary].parent
    IN  IF parent # 0
        THEN IF node = t.nodes[parent].left
             THEN [t EXCEPT !.nodes[parent].left = temporary]
             ELSE [t EXCEPT !.nodes[parent].right = temporary]
        ELSE [t EXCEPT !.globalRoot = temporary]

rotateLeft(t, node) ==
    LET temporary == t.nodes[node].right
    IN  IF temporary = 0 THEN ThrowTypeError(t)
        ELSE LET moved == t.nodes[temporary].left
                 t1 == [t EXCEPT !.nodes[temporary].parent = t.nodes[node].parent,
                                 !.nodes[node].right = moved]
                 t2 == IF moved # 0
                       THEN [t1 EXCEPT !.nodes[moved].parent = node]
                       ELSE t1
                 t3 == [t2 EXCEPT !.nodes[temporary].left = node,
                                  !.nodes[node].parent = temporary]
             IN  Reparent(t3, node, temporary)

rotateRight(t, node) ==
    LET temporary == t.nodes[node].left
    IN  IF temporary = 0 THEN ThrowTypeError(t)
        ELSE LET moved == t.nodes[temporary].right
                 t1 == [t EXCEPT !.nodes[temporary].parent = t.nodes[node].parent,
                                 !.nodes[node].left = moved]
                 t2 == IF moved # 0
                       THEN [t1 EXCEPT !.nodes[moved].parent = node]
                       ELSE t1
                 t3 == [t2 EXCEPT !.nodes[temporary].right = node,
                                  !.nodes[node].parent = temporary]
             IN  Reparent(t3, node, temporary)

\* the last loop of insert and the size++ after it: reading the priority of
\* the parent of a child that has none is a TypeError
RECURSIVE rebalance(_, _)
rebalance(t, child) ==
    IF child = t.root THEN [t EXCEPT !.size = @ + 1]
    ELSE LET parent == t.nodes[child].parent
         IN  IF parent = 0 THEN ThrowTypeError(t)
             ELSE IF t.nodes[parent].priority < t.nodes[child].priority
             THEN IF child = t.nodes[parent].left
                  THEN rebalance(rotateRight(t, parent), child)
                  ELSE rebalance(rotateLeft(t, parent), child)
             ELSE [t EXCEPT !.size = @ + 1]

\* RandomizedTree.prototype.insert(value), with the priority Math.random() gave
insert(t, value, priority) ==
    LET child == Len(t.nodes) + 1
    IN  IF t.root = 0
        THEN [t EXCEPT !.nodes = Append(@, Node(value, 0, priority)),
                       !.root = child,
                       !.size = @ + 1,
                       !.thrown = FALSE]
        ELSE LET parent == findParent(t, 0, t.root, value)
                 t1 == [t EXCEPT !.nodes = Append(@, Node(value, parent, priority)),
                                 !.thrown = FALSE]
             IN  IF parent = 0 THEN ThrowTypeError(t1)
                 ELSE IF compareTo(t.nodes[parent].value, value) = -1
                 THEN rebalance([t1 EXCEPT !.nodes[parent].left = child], child)
                 ELSE rebalance([t1 EXCEPT !.nodes[parent].right = child], child)

RECURSIVE rotateDown(_, _)
rotateDown(t, node) ==
    IF t.nodes[node].left # 0
    THEN LET right == t.nodes[node].right
             leftHigherPriority ==
                 \/ right = 0
                 \/ t.nodes[t.nodes[node].left].priority >= t.nodes[right].priority
         IN  IF leftHigherPriority
             THEN rotateDown(rotateRight(t, node), node)
             ELSE rotateDown(rotateLeft(t, node), node)
    ELSE IF t.nodes[node].right # 0
    THEN rotateDown(rotateLeft(t, node), node)
    ELSE t

\* RandomizedTree.prototype.replace(old, replacement)
replace(t, old, replacement) ==
    LET parent == t.nodes[old].parent
        t1 == IF parent = 0 THEN [t EXCEPT !.root = replacement]
              ELSE IF old = t.nodes[parent].left
              THEN [t EXCEPT !.nodes[parent].left = replacement]
              ELSE [t EXCEPT !.nodes[parent].right = replacement]
    IN  IF replacement # 0
        THEN [t1 EXCEPT !.nodes[replacement].parent = parent]
        ELSE t1

RECURSIVE minimum(_, _)
minimum(t, node) ==
    IF t.nodes[node].left # 0 THEN minimum(t, t.nodes[node].left) ELSE node

\* the middle of remove: the candidate is taken out of the tree
unlink(t, candidate) ==
    IF t.nodes[candidate].left = 0
    THEN replace(t, candidate, t.nodes[candidate].right)
    ELSE IF t.nodes[candidate].right = 0
    THEN replace(t, candidate, t.nodes[candidate].left)
    ELSE LET successor == minimum(t, t.nodes[candidate].right)
             t1 == IF t.nodes[successor].parent # candidate
                   THEN LET r == replace(t, successor, t.nodes[successor].right)
                            right == r.nodes[candidate].right
                        IN  [r EXCEPT !.nodes[successor].right = right,
                                      !.nodes[right].parent = successor]
                   ELSE t
             t2 == replace(t1, candidate, successor)
             leftChild == t2.nodes[candidate].left
         IN  [t2 EXCEPT !.nodes[successor].left = leftChild,
                        !.nodes[leftChild].parent = successor]

\* RandomizedTree.prototype.remove(value): a candidate is any node find
\* returns, also one that was cleared before
remove(t, value) ==
    LET candidate == find(t, value)
        t1 == unlink(rotateDown(t, candidate), candidate)
    IN  IF candidate # 0
        THEN [t1 EXCEPT !.nodes[candidate] = Node(0, 0, 0),
                        !.size = @ - 1,
                        !.thrown = FALSE]
        ELSE [t EXCEPT !.thrown = FALSE]

\* the values of the nodes under a node, from left to right
RECURSIVE valuesUnder(_, _)
valuesUnder(t, node) ==
    IF node = 0 THEN <<>>
    ELSE valuesUnder(t, t.nodes[node].left)
         \o (IF t.nodes[node].value # 0 THEN <<t.nodes[node].value>> ELSE <<>>)
         \o valuesUnder(t, t.nodes[node].right)

\* the items a Set holds: the values of the nodes of its tree
storedItems(t) == valuesUnder(t, t.root)

\* Set.prototype.getSize
getSize(t) == t.size

\* the items of the model, and the priorities Math.random() gives
Items == 1..MaxItem
Priorities == 1..MaxPriority

\* new Set()
SetInit ==
    /\ tree = RandomizedTree
    /\ members = {}
    /\ NoProcessor
    /\ codec = NoCodec
    /\ bvm = NoBvm
    /\ service = NoService
    /\ sets = NoSets

\* Set.prototype.addItem(item), and the insert of a seed item by the
\* constructor
AddItem ==
    /\ Len(tree.nodes) < MaxNodes
    /\ \E item \in Items, priority \in Priorities :
           /\ tree' = insert(tree, item, priority)
           /\ members' = IF tree'.thrown THEN members ELSE members \cup {item}
    /\ UNCHANGED <<machineVars, codecVars, bvmVars, serviceVars, operandVars>>

\* Set.prototype.removeItem(item)
RemoveItem ==
    /\ \E item \in Items :
           /\ tree' = remove(tree, item)
           /\ members' = members \ {item}
    /\ UNCHANGED <<machineVars, codecVars, bvmVars, serviceVars, operandVars>>

SetNext ==
    \/ AddItem
    \/ RemoveItem

SetSpec == SetInit /\ [][SetNext]_vars

----------------------------------------------------------------------------
(* The claims. *)

Status == taskContext.processorStatus

\* the processor exists and is between two instructions
AtBoundary == mode \in {"ready", "running"}

\* C1: every instruction that step() or run() executes to the end decreases
\* the account balance by exactly 1 and increases the clock cycles by exactly
\* 1, whatever the instruction is.
C1_EveryInstructionCostsOne ==
    last.completed =>
        /\ taskContext.accountBalance = last.before.taskContext.accountBalance - 1
        /\ taskContext.clockCycles = last.before.taskContext.clockCycles + 1

\* a LOAD MESSAGE found the queue empty and was charged
C1_Witness ==
    /\ last.completed
    /\ last.index = 15
    /\ Status = WAITING
    /\ taskContext.accountBalance = last.before.taskContext.accountBalance - 1

\* the runnable states as the specification gives them
WithinBytecode(m) ==
    /\ m.taskContext.processorStatus = ACTIVE
    /\ m.taskContext.accountBalance > 0
    /\ m.procedureContext.nextAddress <= Len(m.procedureContext.bytecodeInstructions)

\* C2: run() goes on exactly while the status is ACTIVE, the balance is
\* positive and next_address is at most the number of words of the bytecode,
\* and step() executes an instruction and returns true in exactly those states.
C2_RunnableWhileWithinBytecode ==
    /\ (AtBoundary /\ procedureContext.imported) =>
           (isRunnable(Machine).value <=> WithinBytecode(Machine))
    /\ (last.kind = "step" /\ last.before.procedureContext.imported) =>
           (last.fetched <=> WithinBytecode(last.before))

\* C3: a run() that left its loop performed exactly one finalization, the one
\* its final status selects: a suspension event with the task context for
\* ACTIVE, one entry on the wait queue for WAITING, a completion event for DONE.
C3_ExactlyOneFinalization ==
    left.happened =>
        /\ mode = "finalized"
        /\ Status \in {ACTIVE, WAITING, DONE}
        /\ Status = ACTIVE =>
               /\ events = Append(left.events,
                                  [eventType |-> "$suspension", taskTag |-> Undefined,
                                   taskContext |-> exportTask(taskContext)])
               /\ waitQueue = left.waitQueue
        /\ Status = WAITING =>
               /\ waitQueue = Append(left.waitQueue, exportTask(taskContext))
               /\ events = left.events
        /\ Status = DONE =>
               /\ Len(events) = Len(left.events) + 1
               /\ events[Len(events)].eventType = "$completion"
               /\ waitQueue = left.waitQueue

\* the frame that executed the last instruction was the only frame of its task
InLastFrame == isEmpty(last.before.taskContext.procedureStack)

\* C4: HANDLE RESULT executed in the last frame of a task pops the top of the
\* component stack, makes it the result of the task and sets the status DONE.
C4_HandleResultEndsTheTask ==
    (/\ last.fetched
     /\ last.index = 29
     /\ InLastFrame
     /\ ~isEmpty(last.before.taskContext.componentStack)) =>
        /\ Status = DONE
        /\ taskContext.result = getTop(last.before.taskContext.componentStack)
        /\ taskContext.componentStack = Front(last.before.taskContext.componentStack)

\* C5: HANDLE EXCEPTION executed while no handler is installed unwinds every
\* frame: the status is DONE and the exception of the task is the value that
\* was on top of the component stack.
C5_UnhandledExceptionEndsTheTask ==
    (/\ last.fetched
     /\ last.index = 28
     /\ isEmpty(last.before.taskContext.handlerStack)
     /\ ~isEmpty(last.before.taskContext.componentStack)) =>
        /\ Status = DONE
        /\ taskContext.exception = getTop(last.before.taskContext.componentStack)
        /\ isEmpty(taskContext.procedureStack)

\* C6: when the task ended DONE with an exception, run() publishes a
\* completion event, and the event carries the exception.
C6_CompletionEventCarriesException ==
    (left.happened /\ Status = DONE /\ taskContext.exception # Undefined) =>
        /\ mode = "finalized"
        /\ Len(events) = Len(left.events) + 1
        /\ events[Len(events)].eventType = "$completion"
        /\ "exception" \in DOMAIN events[Len(events)]
        /\ events[Len(events)].exception = taskContext.exception

\* the last instruction was a LOAD MESSAGE that found its queue empty
WaitedOnEmptyQueue ==
    /\ last.completed
    /\ last.index = 15
    /\ receiveMessage(last.before,
           getItem(last.before.procedureContext.variableValues,
                   last.operand).item).message = Undefined

\* C7: after a LOAD MESSAGE on an empty queue next_address has the value it
\* had before the instruction, the status is WAITING, the component stack is
\* unchanged, and run() executes nothing more before it puts the task on the
\* wait queue.
C7_WaitingKeepsTheAddress ==
    WaitedOnEmptyQueue =>
        /\ procedureContext.nextAddress = last.before.procedureContext.nextAddress
        /\ Status = WAITING
        /\ taskContext.componentStack = last.before.taskContext.componentStack
        /\ mode # "thrown"
        /\ AtBoundary =>
               /\ ~step(Machine).wasFetched
               /\ run(Machine) = queueTaskContext(Machine)
        /\ mode = "finalized" =>
               /\ waitQueue = Append(left.waitQueue, exportTask(taskContext))
               /\ events = left.events

\* run() put the task that waited on the wait queue
C7_Witness ==
    /\ WaitedOnEmptyQueue
    /\ last.kind = "run"
    /\ mode = "finalized"
    /\ Len(waitQueue) = 1
    /\ waitQueue[1].processorStatus = WAITING

\* fromTask has just returned, or thrown, for a resumed document
JustResumed ==
    /\ resumes > 0
    /\ mode \in {"ready", "thrown"}
    /\ last.kind = "none"
    /\ ~left.happened

\* the resumed task was waiting for a message of the queue, which now holds one
ResumedWithMessage ==
    /\ JustResumed
    /\ task.processorStatus = WAITING
    /\ origin.imported
    /\ origin.variableValues = <<QueueReference>>
    /\ Len(messages) > 0

\* C8: a task that went WAITING on an empty queue and is resumed with
\* fromTask and run() when the queue holds a message executes its LOAD
\* MESSAGE again: the message is taken from the queue and pushed, and the
\* task is not put back on the wait queue without the retry.
C8_ResumedTaskRetriesLoadMessage ==
    ResumedWithMessage =>
        /\ mode = "ready"
        /\ LET ran == run(Machine)
           IN  /\ ran.taskContext.clockCycles > task.clockCycles
               /\ Len(ran.messages) < Len(messages)

WithBalance(m, balance) ==
    [m EXCEPT !.taskContext.accountBalance = balance]

\* run() ended with the suspension of the task for want of balance
Suspended(m) ==
    /\ ~m.thrown
    /\ m.taskContext.processorStatus = ACTIVE
    /\ m.taskContext.accountBalance = 0

\* the machine after the document of the latest suspension event of m was
\* given the balance, imported with fromTask and run
Continued(m, balance) ==
    LET document ==
            [m.events[Len(m.events)].taskContext EXCEPT !.accountBalance = balance]
        resumed == fromTask(document, m)
    IN  IF resumed.thrown THEN resumed ELSE run(resumed)

\* the two machines are in the same state of the same execution
SameExecution(a, b) ==
    /\ a.thrown = b.thrown
    /\ a.taskContext.componentStack = b.taskContext.componentStack
    /\ a.taskContext.handlerStack = b.taskContext.handlerStack
    /\ a.taskContext.procedureStack = b.taskContext.procedureStack
    /\ a.taskContext.processorStatus = b.taskContext.processorStatus
    /\ a.taskContext.result = b.taskContext.result
    /\ a.procedureContext = b.procedureContext

\* C9: for every split n + k of the balance, running with balance n until the
\* suspension, exporting, importing with fromTask and running with balance k
\* reaches the state that one run with balance n + k reaches.
C9_SuspendResumeIsTransparent ==
    (mode = "ready" /\ last.kind = "none") =>
        \A n \in 1..(taskContext.accountBalance - 1) :
            LET first == run(WithBalance(Machine, n))
            IN  Suspended(first) =>
                    SameExecution(Continued(first, taskContext.accountBalance - n),
                                  run(Machine))

\* the fields of the task context an exported document carries
Exported(context) ==
    [field \in {"taskTag", "accountTag", "accountBalance", "processorStatus",
                "clockCycles", "componentStack", "handlerStack", "procedureStack"}
        |-> context[field]]

\* C10: exporting the task context of a processor and importing the result
\* yields the same task context and the same frames, the current one included.
C10_ExportImportRoundTrip ==
    (AtBoundary /\ procedureContext.imported) =>
        LET imported == fromTask(exportTask(taskContext), Machine)
        IN  /\ ~imported.thrown
            /\ Exported(imported.taskContext) = Exported(taskContext)
            /\ imported.procedureContext =
                   [procedureContext EXCEPT !.currentInstruction = -1]

\* the last instruction was a JUMP that was taken: JUMP TO label, or a
\* conditional JUMP whose popped condition is the template of its modifier
JumpTaken ==
    /\ last.completed
    /\ last.operand > 0
    /\ \/ last.index = 0
       \/ /\ last.index \in {1, 2, 3}
          /\ getTop(last.before.taskContext.componentStack) =
                 CASE last.index = 1 -> TemplateNONE
                   [] last.index = 2 -> TemplateTRUE
                   [] OTHER -> TemplateFALSE

\* C11: after a JUMP that is taken the next instruction fetched and executed
\* is the word at the address the JUMP names: next_address is that address
\* when the JUMP has been executed.
C11_JumpGoesToItsOperand ==
    JumpTaken => procedureContext.nextAddress = last.operand

\* the last instruction was a HANDLE EXCEPTION in a frame with a handler
HandledException ==
    /\ last.fetched
    /\ last.index = 28
    /\ ~isEmpty(last.before.taskContext.handlerStack)
    /\ ~isEmpty(last.before.taskContext.componentStack)

\* C12: HANDLE EXCEPTION in a frame that has a handler installed transfers
\* to the address of the handler in the same frame: next_address is the
\* address pushed last, that handler is popped, the exception is still on the
\* component stack, no frame is popped and the status stays ACTIVE.
C12_HandlerTakesTheException ==
    HandledException =>
        /\ last.completed
        /\ procedureContext.nextAddress =
               getTop(last.before.taskContext.handlerStack)
        /\ taskContext.handlerStack = Front(last.before.taskContext.handlerStack)
        /\ taskContext.componentStack = last.before.taskContext.componentStack
        /\ taskContext.procedureStack = last.before.taskContext.procedureStack
        /\ Status = ACTIVE

\* a handler threw while it executed the last instruction
Faulted == last.fetched /\ ~last.completed

\* C13: a fault raised while an instruction executes becomes an exception
\* that enters the HANDLE EXCEPTION unwinding: step() and run() return, and
\* the exception went to a handler of the frame or ended the task DONE with
\* the exception set.
C13_FaultsEnterTheUnwinding ==
    Faulted =>
        /\ mode # "thrown"
        /\ \/ /\ Status = ACTIVE
              /\ ~isEmpty(last.before.taskContext.handlerStack)
           \/ /\ Status = DONE
              /\ taskContext.exception # Undefined

\* C14: the account balance of a task imported with a balance of 0 or more
\* is never negative, and once it is 0 the processor executes no further
\* instruction: the clock cycles, the balance and the status keep their
\* values.
C14_BalanceNeverNegative ==
    /\ [](taskContext.accountBalance >= 0)
    /\ [][(AtBoundary /\ taskContext.accountBalance = 0) =>
              /\ taskContext'.accountBalance = 0
              /\ taskContext'.clockCycles = taskContext.clockCycles
              /\ taskContext'.processorStatus = Status
              /\ procedureContext' = procedureContext]_vars

\* step() was called on a task whose balance execution had brought to 0 while
\* instructions were left, and fetched nothing
C14_Witness ==
    /\ last.kind = "step"
    /\ ~last.fetched
    /\ mode = "ready"
    /\ taskContext.accountBalance = 0
    /\ taskContext.clockCycles > 0
    /\ Status = ACTIVE
    /\ procedureContext.nextAddress * 4 <= Len(procedureContext.bytecodeInstructions)

\* C15: the account balance bounds the work of one run(): the loop of run()
\* executes at most as many instructions as the balance it starts with, and
\* it ends by going on to finalizeProcessing.
C15_BalanceBoundsTheRun ==
    mode = "ready" =>
        LET looped == runLoop(Machine)
        IN  /\ ~looped.thrown
            /\ looped.taskContext.clockCycles - taskContext.clockCycles
                   <= taskContext.accountBalance

\* run() has finished, by a finalization that returned, with the task not DONE
FinishedNotDone ==
    /\ left.happened
    /\ mode = "finalized"
    /\ Status # DONE

\* run() published one suspension event, with the exported task context
SuspensionPublished ==
    /\ events = Append(left.events,
                       [eventType |-> "$suspension", taskTag |-> Undefined,
                        taskContext |-> exportTask(taskContext)])
    /\ waitQueue = left.waitQueue

\* the task is WAITING since the last instruction it executed, a LOAD MESSAGE
\* (which sets WAITING when its queue is empty), in this run or before the
\* document was persisted
WaitingSinceLoadMessage ==
    /\ Status = WAITING
    /\ \/ /\ taskContext.clockCycles > task.clockCycles
          /\ decodeOperation(procedureContext.currentInstruction) = 3
          /\ decodeModifier(procedureContext.currentInstruction) = 3
       \/ /\ taskContext.clockCycles = task.clockCycles
          /\ task.processorStatus = WAITING

\* isRunnable finds no instruction at next_address
NoMoreInstructions ==
    procedureContext.nextAddress * 4 > Len(procedureContext.bytecodeInstructions)

\* C16 as stated: whenever run() finishes with the task not DONE, either the
\* balance is 0 (status ACTIVE, a suspension event published) or the last
\* executed instruction was a LOAD MESSAGE on an empty queue (status WAITING);
\* no suspension event is published while the balance is positive.
C16_TwoSuspensionPoints ==
    FinishedNotDone =>
        \/ /\ Status = ACTIVE
           /\ taskContext.accountBalance = 0
           /\ SuspensionPublished
        \/ WaitingSinceLoadMessage

\* C16 amended: whenever run() finishes with the task not DONE, either the
\* status is ACTIVE and a suspension event is published, the balance being 0
\* or no instruction being left at next_address, or the status is WAITING
\* since a LOAD MESSAGE on an empty queue and the task is put on the wait
\* queue.
C16_SuspensionPoints ==
    FinishedNotDone =>
        \/ /\ Status = ACTIVE
           /\ taskContext.accountBalance = 0 \/ NoMoreInstructions
           /\ SuspensionPublished
        \/ /\ WaitingSinceLoadMessage
           /\ waitQueue = Append(left.waitQueue, exportTask(taskContext))
           /\ events = left.events

\* run() executed the instructions that were left and published a suspension
\* event for a task that still has tokens
C16_Witness ==
    /\ FinishedNotDone
    /\ last.kind = "run"
    /\ last.completed
    /\ Status = ACTIVE
    /\ taskContext.accountBalance > 0
    /\ NoMoreInstructions
    /\ SuspensionPublished

\* C17: a persisted task document whose balance was set to 0, whatever its
\* status, is cancelled by its next resume: fromTask and run() execute no
\* instruction and publish a suspension event at once.
C17_ZeroBalanceCancels ==
    (mode = "document" /\ task.accountBalance = 0) =>
        LET resumed == fromTask(task, Machine)
            ran == run(resumed)
        IN  /\ ~resumed.thrown
            /\ ~ran.thrown
            /\ ran.taskContext.clockCycles = task.clockCycles
            /\ Len(ran.events) = Len(events) + 1
            /\ ran.events[Len(ran.events)].eventType = "$suspension"
            /\ ran.waitQueue = waitQueue

\* every word of the bytecode of the current frame is valid for the codec
ValidBytecode ==
    \A i \in 1..Len(procedureContext.bytecodeInstructions) :
        instructionIsValid(procedureContext.bytecodeInstructions[i])

\* C18: at every instruction boundary at which the status is ACTIVE,
\* next_address of the current frame is at least 1 and at most the number of
\* words of its bytecode plus 1, whenever the words are valid for the codec.
C18_NextAddressWithinBytecode ==
    (AtBoundary /\ Status = ACTIVE /\ procedureContext.imported /\ ValidBytecode) =>
        /\ 1 <= procedureContext.nextAddress
        /\ procedureContext.nextAddress <=
               Len(procedureContext.bytecodeInstructions) + 1

\* C19: at every instruction boundary from fromTask onward the procedure
\* stack of the task is non-empty if and only if the status is not DONE.
C19_ProcedureStackEmptyIffDone ==
    AtBoundary => (~isEmpty(taskContext.procedureStack) <=> Status # DONE)

\* the operands the words below are built with
TestOperands == {0, 1, 2, OPERAND_MASK}

\* words of every operation and modifier
TestWords ==
    {encodeInstruction(operation, modifier, operand) :
        operation \in 0..7, modifier \in 0..3, operand \in TestOperands}

\* the word the last instruction executed
LastWord == last.index * 2048 + last.operand

\* executeInstruction on the current machine with the word as the
\* instruction that was fetched
Executed(word) ==
    executeInstruction(
        [Machine EXCEPT !.procedureContext.currentInstruction = word])

\* executeInstruction as the last step called it
ExecutedLast ==
    executeInstruction(
        [Machine EXCEPT !.taskContext = last.before.taskContext,
                        !.procedureContext =
                            [last.before.procedureContext
                                 EXCEPT !.currentInstruction = LastWord],
                        !.messages = last.before.messages,
                        !.thrown = FALSE])

\* the machine after an instruction that failed before any change
FailedUnchanged(word) ==
    [Fault(Machine) EXCEPT !.procedureContext.currentInstruction = word]

\* C20: executing a word instructionIsValid rejects fails, and fails before
\* any change of the stacks, next_address, the balance, the clock cycles and
\* the status; a word it accepts goes to a handler that does not raise the
\* operand or decode fault.
C20_InvalidWordsFailUnchanged ==
    /\ (mode = "ready" /\ last.kind = "none") =>
           \A word \in TestWords :
               IF instructionIsValid(word)
               THEN ~Executed(word).fault
               ELSE Executed(word) = FailedUnchanged(word)
    /\ last.fetched =>
           IF instructionIsValid(LastWord)
           THEN ~ExecutedLast.fault
           ELSE /\ mode = "thrown"
                /\ taskContext = last.before.taskContext
                /\ procedureContext =
                       [last.before.procedureContext
                            EXCEPT !.currentInstruction = LastWord]

\* step() fetched a word of a reserved slot, which failed
C20_Witness ==
    /\ last.fetched
    /\ ~instructionIsValid(LastWord)
    /\ last.index = 7
    /\ mode = "thrown"
    /\ taskContext = last.before.taskContext

\* C21: encodeInstruction followed by decodeOperation, decodeModifier and
\* decodeOperand gives back the triple (operation, modifier, operand), for
\* every operation in 0..7, modifier in 0..3 and operand in 0..2047, and the
\* encoded word is within 0..65535.
C21_EncodeDecodeIsIdentity ==
    codec.stage = "decoded" =>
        /\ codec.decodedOperation = codec.operation
        /\ codec.decodedModifier = codec.modifier
        /\ codec.decodedOperand = codec.operand
        /\ codec.instruction \in 0..65535

\* the largest triple was encoded as the largest word and decoded
C21_Witness ==
    /\ codec.stage = "decoded"
    /\ codec.operation = 7
    /\ codec.modifier = 3
    /\ codec.operand = 2047
    /\ codec.instruction = 65535
    /\ codec.decodedOperand = 2047

\* the classification table of the instruction set, on a triple
Classified(operation, modifier, operand) ==
    \/ operation = 0 /\ (operand > 0 \/ modifier = 0)            \* JUMP, SKIP
    \/ operation = 1 /\ modifier \in {0, 1, 2} /\ operand > 0    \* PUSH
    \/ operation = 2 /\ modifier \in {0, 1} /\ operand = 0       \* POP
    \/ operation \in {3, 4, 5, 6} /\ operand >= 1    \* LOAD, STORE, INVOKE, EXECUTE
    \/ operation = 7 /\ modifier \in {0, 1} /\ operand = 0       \* HANDLE

\* C22: for every triple in range, instructionIsValid of the encoded triple is
\* true if and only if the triple matches the classification table (JUMP with
\* an operand or with modifier 0; PUSH HANDLER, ELEMENT, CODE with an operand;
\* POP HANDLER, COMPONENT without an operand; LOAD, STORE, INVOKE, EXECUTE
\* with an operand; HANDLE EXCEPTION, RESULT without an operand).
C22_ValidIffClassified ==
    codec.stage = "validated" =>
        (codec.valid <=> Classified(codec.operation, codec.modifier, codec.operand))

\* a POP COMPONENT with an operand was found invalid
C22_Witness ==
    /\ codec.stage = "validated"
    /\ codec.operation = 2
    /\ codec.modifier = 1
    /\ codec.operand = 5
    /\ ~codec.valid

\* no two items of a sequence are equal
NoDuplicates(items) ==
    \A i, j \in 1..Len(items) : items[i] = items[j] => i = j

\* C23: a Set never holds duplicate items: after any sequence of addItem and
\* removeItem calls (none of which threw), no two stored items compare equal
\* and getSize() is the number of distinct items added and not removed.
C23_SetHoldsNoDuplicates ==
    (tree.stage = "set" /\ ~tree.failed) =>
        /\ NoDuplicates(storedItems(tree))
        /\ getSize(tree) = Cardinality(members)

\* an EXECUTE instruction with an operand was fetched, with the values it
\* pops on the component stack
ExecuteFetched ==
    /\ last.fetched
    /\ last.index \in 24..27
    /\ last.operand > 0
    /\ Len(last.before.taskContext.componentStack) >=
           (IF last.index \in {25, 27} THEN 2 ELSE 1)

\* C24: after an EXECUTE instruction the procedure stack is one frame deeper,
\* the new frame is the current frame, and the next instruction fetched is the
\* word at address 1 of the called procedure (the first instruction of the
\* callee is not skipped).
C24_ExecuteEntersTheCallee ==
    ExecuteFetched =>
        /\ last.completed
        /\ Len(taskContext.procedureStack) =
               Len(last.before.taskContext.procedureStack) + 1
        /\ procedureContext.imported
        /\ procedureContext.nextAddress = 1

\* the frame of the caller of the current frame, in the task document
CallerFrame == task.procedureStack[Len(task.procedureStack) - 1]

\* HANDLE RESULT was fetched in a frame that has a caller, with the value to
\* return on the component stack, in a task that was not persisted since
ReturnFetched ==
    /\ last.fetched
    /\ last.index = 29
    /\ last.operand = 0
    /\ resumes = 0
    /\ Len(task.procedureStack) >= 2
    /\ Len(last.before.taskContext.componentStack) >= 1

\* C25: when HANDLE RESULT executes in a frame that a caller frame called,
\* the caller frame becomes the current frame again, the returned value is on
\* top of the component stack, the status stays ACTIVE, and the caller resumes
\* at the instruction that follows its EXECUTE.
C25_ResultReturnsToTheCaller ==
    ReturnFetched =>
        /\ last.completed
        /\ Status = ACTIVE
        /\ procedureContext.imported
        /\ procedureContext.nextAddress = CallerFrame.nextAddress
        /\ procedureContext.bytecodeInstructions =
               base16ToBytecode(CallerFrame.bytecodeInstructions)
        /\ Len(taskContext.componentStack) >= 1
        /\ getTop(taskContext.componentStack) =
               getTop(last.before.taskContext.componentStack)

\* HANDLE EXCEPTION was fetched in a frame that installed no handler and
\* whose caller installed one before it called, with the exception on the
\* component stack
PropagationFetched ==
    /\ last.fetched
    /\ last.index = 28
    /\ last.operand = 0
    /\ resumes = 0
    /\ Len(task.procedureStack) >= 2
    /\ task.handlerStack = <<HandlerAddress>>
    /\ last.before.taskContext.handlerStack = <<HandlerAddress>>
    /\ Len(last.before.taskContext.componentStack) >= 1

\* C26: an exception raised by HANDLE EXCEPTION in a callee frame that
\* installed no handler propagates to the caller: the callee frame is left,
\* the exception is on the component stack, and as the caller installed a
\* handler, execution resumes in the caller frame at the handler's address
\* with status ACTIVE; the frames below the caller are kept.
C26_ExceptionPropagatesToTheCaller ==
    PropagationFetched =>
        /\ last.completed
        /\ Status = ACTIVE
        /\ procedureContext.imported
        /\ procedureContext.bytecodeInstructions =
               base16ToBytecode(CallerFrame.bytecodeInstructions)
        /\ procedureContext.nextAddress = HandlerAddress
        /\ Len(taskContext.componentStack) >= 1
        /\ getTop(taskContext.componentStack) =
               getTop(last.before.taskContext.componentStack)
        /\ \A i \in 1..(Len(task.procedureStack) - 2) :
               \E j \in 1..Len(taskContext.procedureStack) :
                   taskContext.procedureStack[j] = task.procedureStack[i]

\* HANDLE EXCEPTION was fetched with handlers on the handler stack and the
\* exception on the component stack
HandlerFound ==
    /\ last.fetched
    /\ last.index = 28
    /\ last.operand = 0
    /\ Len(last.before.taskContext.handlerStack) >= 1
    /\ Len(last.before.taskContext.componentStack) >= 1

\* C27: handlers are one-shot: a HANDLE EXCEPTION that finds a handler removes
\* exactly one address from the handler stack, the one pushed last, and
\* transfers to that address; the handlers pushed earlier stay on the handler
\* stack in their order.
C27_HandlersAreOneShot ==
    HandlerFound =>
        /\ taskContext.handlerStack = Front(last.before.taskContext.handlerStack)
        /\ last.completed
        /\ procedureContext.imported
        /\ procedureContext.nextAddress =
               getTop(last.before.taskContext.handlerStack)

\* an INVOKE instruction with an operand was fetched, with as many values on
\* the component stack as its arity
InvokeFetched ==
    /\ last.fetched
    /\ last.index \in 20..23
    /\ last.operand > 0
    /\ Len(last.before.taskContext.componentStack) >= last.index - 20

\* the n values on top of a stack, the top one first
PopOrder(stack, n) ==
    [i \in 1..n |-> stack[Len(stack) + 1 - i]]

\* C28: INVOKE with arity n pops exactly n values from the component stack
\* and pushes exactly one, the result of the intrinsic function, so the depth
\* changes by 1 - n and the values below the n arguments are untouched; the
\* parameters are passed in pop order (the value popped first is parameter 1).
C28_InvokePopsItsArity ==
    InvokeFetched =>
        LET arity == last.index - 20
            stack == last.before.taskContext.componentStack
        IN  /\ last.completed
            /\ Len(taskContext.componentStack) = Len(stack) + 1 - arity
            /\ SubSeq(taskContext.componentStack, 1, Len(stack) - arity) =
                   SubSeq(stack, 1, Len(stack) - arity)
            /\ getTop(taskContext.componentStack) =
                   intrinsicFunctions(last.operand, PopOrder(stack, arity))

\* an INVOKE WITH 3 PARAMETERS took $d, $c and $b, in this order, and left $a
C28_Witness ==
    /\ InvokeFetched
    /\ last.completed
    /\ last.index = 23
    /\ last.before.taskContext.componentStack = <<"$a", "$b", "$c", "$d">>
    /\ taskContext.componentStack = <<"$a", "$intrinsic1($d,$c,$b)">>

\* the processor executed an INVOKE without parameters
InvokedWithoutParameters ==
    /\ last.completed
    /\ last.index = 20

\* C29: INVOKE with operand k calls the k-th entry of the intrinsic table
\* counted from 1 (operand 1 selects the first function, which a JavaScript
\* array holds at position 0), and the virtual machine of src/bvm selects the
\* same entry for the same operand.
C29_InvokeSelectsTheSameIntrinsic ==
    InvokedWithoutParameters =>
        /\ getTop(taskContext.componentStack) =
               intrinsicFunctions(last.operand - 1, <<>>)
        /\ getTop(taskContext.componentStack) =
               getTop(bvmInvoke(last.before.taskContext.componentStack,
                                last.operand))

\* how many values an EXECUTE pops: the type reference or the target, and
\* the parameters of the WITH PARAMETERS variants
ExecutePops == IF last.index \in {25, 27} THEN 2 ELSE 1

\* C30: a procedure call uses the task's one component stack: EXECUTE pops
\* exactly one value (the type reference, or the target), the WITH PARAMETERS
\* variants exactly one more (the parameters), and when the callee starts
\* every value below the popped ones is still on the stack, in the same order.
C30_CallKeepsTheStackBelow ==
    ExecuteFetched =>
        LET stack == last.before.taskContext.componentStack
        IN  /\ last.completed
            /\ procedureContext.imported
            /\ procedureContext.nextAddress = 1
            /\ taskContext.componentStack =
                   SubSeq(stack, 1, Len(stack) - ExecutePops)

\* a conditional JUMP with a label was fetched, with a condition on the
\* component stack
ConditionalJumpFetched ==
    /\ last.fetched
    /\ last.index \in 1..3
    /\ last.operand > 0
    /\ Len(last.before.taskContext.componentStack) >= 1

\* the template a conditional JUMP compares the condition with
TemplateOf(index) ==
    CASE index = 1 -> TemplateNONE
      [] index = 2 -> TemplateTRUE
      [] index = 3 -> TemplateFALSE

\* C31: a conditional JUMP pops exactly one value from the component stack
\* whether or not the jump is taken; when the condition does not match the
\* template of the modifier, execution falls through to the following
\* address; the handler stack and the procedure stack are unchanged.
C31_ConditionalJumpPopsOne ==
    ConditionalJumpFetched =>
        /\ last.completed
        /\ taskContext.componentStack =
               Front(last.before.taskContext.componentStack)
        /\ taskContext.handlerStack = last.before.taskContext.handlerStack
        /\ taskContext.procedureStack = last.before.taskContext.procedureStack
        /\ getTop(last.before.taskContext.componentStack) # TemplateOf(last.index) =>
               procedureContext.nextAddress =
                   last.before.procedureContext.nextAddress + 1

\* a JUMP ON TRUE found false on the stack, popped it and fell through
C31_Witness ==
    /\ ConditionalJumpFetched
    /\ last.completed
    /\ last.index = 2
    /\ last.before.taskContext.componentStack = <<"$a", TemplateFALSE>>
    /\ taskContext.componentStack = <<"$a">>
    /\ procedureContext.nextAddress = 2

\* LOAD MESSAGE was fetched while the queue its variable names held a message
MessageAvailable ==
    /\ last.fetched
    /\ last.index = 15
    /\ last.operand \in 1..Len(last.before.procedureContext.variableValues)
    /\ last.before.procedureContext.variableValues[last.operand] = QueueReference
    /\ Len(last.before.messages) >= 1

\* C32: LOAD MESSAGE on a queue that is not empty removes one message from the
\* queue its variable names, pushes it on the component stack, leaves the
\* status ACTIVE and advances the next address by 1; the task is not placed
\* on the wait queue.
C32_LoadMessageTakesOneMessage ==
    MessageAvailable =>
        /\ last.completed
        /\ (IF left.happened THEN left.messages ELSE messages) =
               Tail(last.before.messages)
        /\ taskContext.componentStack =
               Append(last.before.taskContext.componentStack,
                      Head(last.before.messages))
        /\ Status = ACTIVE
        /\ procedureContext.nextAddress =
               last.before.procedureContext.nextAddress + 1
        /\ waitQueue = <<>>

\* a LOAD MESSAGE took the one message of the queue, and run() finalized
C32_Witness ==
    /\ MessageAvailable
    /\ last.completed
    /\ last.before.messages = <<"$message">>
    /\ messages = <<>>
    /\ getTop(taskContext.componentStack) = "$message"
    /\ mode = "finalized"

\* the frame the processor is in, as the task document handed it to fromTask
EnteredFrame == task.procedureStack[Len(task.procedureStack)]

\* the processor is in a frame that importProcedure read
InFrame == mode # "document" /\ procedureContext.imported

\* STORE VARIABLE i was fetched in a frame of the task
StoreVariableFetched ==
    /\ last.fetched
    /\ last.index = 16
    /\ last.operand > 0
    /\ last.before.procedureContext.imported

\* C33: no instruction modifies the literal table or the parameter table of a
\* frame after the frame is entered, and STORE VARIABLE i changes only
\* variable cell i of the current frame: its other variables and the frames
\* below it on the procedure stack stay as they were.
C33_StoreChangesOneVariable ==
    /\ InFrame =>
           /\ procedureContext.literalValues = EnteredFrame.literalValues
           /\ procedureContext.parameterValues = EnteredFrame.parameterValues
    /\ mode # "document" =>
           /\ Len(taskContext.procedureStack) <= Len(task.procedureStack)
           /\ taskContext.procedureStack =
                  SubSeq(task.procedureStack, 1, Len(taskContext.procedureStack))
    /\ StoreVariableFetched =>
           /\ procedureContext.imported
           /\ Len(procedureContext.variableValues) =
                  Len(last.before.procedureContext.variableValues)
           /\ \A cell \in 1..Len(procedureContext.variableValues) :
                  IF cell = last.operand /\ last.completed
                  THEN procedureContext.variableValues[cell] =
                           getTop(last.before.taskContext.componentStack)
                  ELSE procedureContext.variableValues[cell] =
                           last.before.procedureContext.variableValues[cell]
           /\ taskContext.procedureStack = last.before.taskContext.procedureStack

\* STORE VARIABLE 2 stored the top of the stack in the second variable of a
\* frame with a caller below it
C33_Witness ==
    /\ StoreVariableFetched
    /\ last.completed
    /\ last.operand = 2
    /\ last.before.procedureContext.variableValues = <<QueueReference, "$old">>
    /\ procedureContext.variableValues = <<QueueReference, "$b">>
    /\ procedureContext.parameterValues = <<"$parameter">>
    /\ Len(taskContext.procedureStack) = 1

----------------------------------------------------------------------------
(* The VirtualMachine of src/bvm: processInstructions and the handlers its
   loop reaches. *)

\* the instructions a task context of src/bvm may hold
MaxInstructions == 3

\* properties of the receiver of a handler call: executeNextInstruction calls
\* this.instructionHandlers[index](operand), so the handler's this is the
\* handler table, which has no procedureContext, and neither the table nor
\* VirtualMachine.prototype defines getReference
bvmThis == [procedureContext |-> Undefined, getReference |-> Undefined]

\* cloud.receiveMessage of the cloud object of the file: it logs and returns
\* nothing
bvmReceiveMessage(queue) == Undefined

\* a TypeError thrown out of processInstructions
bvmThrow(vm) == [vm EXCEPT !.stage = "thrown"]

\* JUMP TO label of src/bvm
bvmJumpTo(vm, operand) ==
    IF operand > 0
    THEN IF bvmThis.procedureContext = Undefined THEN bvmThrow(vm)
         ELSE [vm EXCEPT !.address = operand]
    ELSE vm

\* LOAD MESSAGE symbol of src/bvm
bvmLoadMessage(vm, operand) ==
    IF bvmThis.getReference = Undefined THEN bvmThrow(vm)
    ELSE LET message == bvmReceiveMessage(QueueReference)
         IN  IF message # Undefined
             THEN [vm EXCEPT !.components = Append(@, message)]
             ELSE [vm EXCEPT !.procedureStatus = WAITING,
                             !.address = @ - 1]

\* executeNextInstruction
bvmExecuteNextInstruction(vm, instruction) ==
    LET operation == decodeOperation(instruction)
        modifier == decodeModifier(instruction)
        operand == decodeOperand(instruction)
        index == BitOr(ShiftLeft(operation, 2), modifier)
    IN  CASE index = 0 -> bvmJumpTo(vm, operand)
          [] index = 15 -> bvmLoadMessage(vm, operand)
          [] OTHER -> bvmThrow(vm)

\* fetchNextInstruction: the address is incremented, then the word is read
fetchNextInstruction(vm) ==
    LET address == vm.address + 1
    IN  IF address \in 1..Len(vm.instructions)
        THEN [machine |-> [vm EXCEPT !.address = address,
                                      !.instruction = vm.instructions[address]],
              instruction |-> vm.instructions[address]]
        ELSE [machine |-> bvmThrow([vm EXCEPT !.address = address]),
              instruction |-> -1]

\* cloud.writeDraft is not a function of the cloud object of the file
saveTaskState(vm) == bvmThrow(vm)

\* publishCompletionEvent: cloud.publishEvent logs the event
bvmPublishCompletionEvent(vm) == [vm EXCEPT !.stage = "published"]

\* the task contexts a virtual machine is made with
BvmWords == {SKIP, JUMP_TO_2, LOAD_MESSAGE_1}

BvmPrograms ==
    UNION {[1..n -> BvmWords] : n \in 1..MaxInstructions}

BvmInit ==
    /\ bvm \in [stage : {"loop"},
                status : {ACTIVE, WAITING, DONE},
                singleStep : BOOLEAN,
                procedureStatus : {Undefined},
                address : {0},
                instructions : BvmPrograms,
                instruction : {-1},
                components : {<<>>},
                turns : {0},
                broke : {FALSE}]
    /\ NoProcessor
    /\ codec = NoCodec
    /\ tree = NoTree
    /\ members = {}
    /\ service = NoService
    /\ sets = NoSets

\* one turn of the loop of processInstructions
ProcessInstruction ==
    /\ bvm.stage = "loop"
    /\ ~bvm.broke
    /\ bvm.status = ACTIVE
    /\ LET fetched == fetchNextInstruction(bvm)
           executed == IF fetched.machine.stage = "thrown" THEN fetched.machine
                       ELSE bvmExecuteNextInstruction(fetched.machine,
                                                      fetched.instruction)
       IN  bvm' = [executed EXCEPT
                       !.turns = @ + 1,
                       !.broke = executed.stage = "loop" /\ executed.singleStep]
    /\ UNCHANGED <<machineVars, codecVars, setVars, serviceVars, operandVars>>

\* the loop of processInstructions has ended: the outcome is determined
ProcessOutcome ==
    /\ bvm.stage = "loop"
    /\ bvm.broke \/ bvm.status # ACTIVE
    /\ bvm' = IF bvm.status = DONE THEN bvmPublishCompletionEvent(bvm)
              ELSE saveTaskState(bvm)
    /\ UNCHANGED <<machineVars, codecVars, setVars, serviceVars, operandVars>>

BvmNext ==
    \/ ProcessInstruction
    \/ ProcessOutcome

BvmSpec == BvmInit /\ [][BvmNext]_vars

\* the loop of processInstructions executed a LOAD MESSAGE (the queue of the
\* cloud object is always empty)
LoadMessageExecuted ==
    /\ bvm.stage # "none"
    /\ bvm.turns > 0
    /\ bvm.instruction = LOAD_MESSAGE_1

\* C34: in the virtual machine of src/bvm, after LOAD MESSAGE finds the queue
\* empty the waiting status is recorded on the task (the status the loop of
\* processInstructions tests), the loop exits without retrying the
\* instruction, and the task state is saved.
C34_WaitingEndsProcessInstructions ==
    LoadMessageExecuted =>
        /\ bvm.status = WAITING
        /\ bvm.stage \in {"loop", "saved"}
        /\ bvm.stage = "loop" => ~ENABLED ProcessInstruction


\* C35: after any sequence of insert and remove calls on the treap (none of
\* which threw), tree.root is the node that has no parent, exactly tree.size
\* nodes are reachable from tree.root, and find(v) succeeds for exactly the
\* values inserted and not removed: a rotation at the root updates this.root.
C35_RootFollowsTheRotations ==
    (tree.stage = "set" /\ ~tree.failed) =>
        /\ tree.root # 0 => tree.nodes[tree.root].parent = 0
        /\ Len(valuesUnder(tree, tree.root)) = tree.size
        /\ \A value \in Items : (find(tree, value) # 0) <=> (value \in members)


----------------------------------------------------------------------------
(* Set.xor and the iterators it reads its operands with. *)

\* the items of the operands of Set.xor are 1..MaxOperand
MaxOperand == 3

\* the items of a Set in their order, as an iterator is meant to deliver them
RECURSIVE Ordered(_)
Ordered(items) ==
    IF items = {} THEN <<>>
    ELSE LET least == CHOOSE item \in items : \A other \in items : item <= other
         IN  <<least>> \o Ordered(items \ {least})

\* new SetIterator(set): the constructor calls this.set.tree.minimum()
\* without a node, and minimum reads node.left
SetIterator(set) ==
    [thrown |-> TRUE, items |-> Ordered(set), currentIndex |-> 0]

\* SetIterator.prototype.hasNext
hasNext(iterator) == iterator.currentIndex < Len(iterator.items)

\* the loop of Set.xor: item1 and item2 are the items read and not yet
\* consumed (0 for undefined), result the items added to the result
RECURSIVE xorLoop(_, _, _, _, _)
xorLoop(iterator1, iterator2, item1, item2, result) ==
    IF ~(hasNext(iterator1) /\ hasNext(iterator2)) THEN result
    ELSE LET read1 == item1 = 0
             read2 == item2 = 0
             next1 == IF read1
                      THEN [iterator1 EXCEPT !.currentIndex = @ + 1]
                      ELSE iterator1
             next2 == IF read2
                      THEN [iterator2 EXCEPT !.currentIndex = @ + 1]
                      ELSE iterator2
             first == IF read1 THEN next1.items[next1.currentIndex] ELSE item1
             second == IF read2 THEN next2.items[next2.currentIndex] ELSE item2
             signum == compareTo(first, second)
         IN  CASE signum = -1 ->
                      xorLoop(next1, next2, 0, second, result \cup {first})
               [] signum = 0 -> xorLoop(next1, next2, 0, 0, result)
               [] signum = 1 ->
                      xorLoop(next1, next2, first, 0, result \cup {second})

\* Set.xor(set1, set2)
xor(set1, set2) ==
    LET iterator1 == SetIterator(set1)
        iterator2 == SetIterator(set2)
    IN  IF iterator1.thrown \/ iterator2.thrown
        THEN [thrown |-> TRUE, items |-> {}]
        ELSE [thrown |-> FALSE,
              items |-> xorLoop(iterator1, iterator2, 0, 0, {})]

XorInit ==
    /\ sets \in [stage : {"operands"},
                 set1 : SUBSET (1..MaxOperand),
                 set2 : SUBSET (1..MaxOperand),
                 result : {{}},
                 thrown : {FALSE}]
    /\ NoProcessor
    /\ codec = NoCodec
    /\ tree = NoTree
    /\ members = {}
    /\ bvm = NoBvm
    /\ service = NoService

\* a caller calls Set.xor(set1, set2)
Xor ==
    /\ sets.stage = "operands"
    /\ LET returned == xor(sets.set1, sets.set2)
       IN  sets' = [sets EXCEPT !.stage = "returned",
                                !.result = returned.items,
                                !.thrown = returned.thrown]
    /\ UNCHANGED <<machineVars, codecVars, setVars, bvmVars, serviceVars>>

XorNext == Xor

XorSpec == XorInit /\ [][XorNext]_vars

\* C36: Set.xor(set1, set2) returns exactly the symmetric difference of the
\* two sets (the items that are in one of them and not in the other), also
\* when the sets have different sizes and when one of them is empty.
C36_XorIsTheSymmetricDifference ==
    sets.stage = "returned" =>
        /\ ~sets.thrown
        /\ sets.result = (sets.set1 \ sets.set2) \cup (sets.set2 \ sets.set1)


\* C37: DONE is absorbing: once the status is DONE, step() returns false and
\* changes nothing and the loop of run() executes no instruction, so no
\* operation changes the status, the result, the exception, the stacks, the
\* balance or the clock cycles of the task; the result and the exception are
\* never both set.
C37_DoneIsAbsorbing ==
    /\ ~(taskContext.result # Undefined /\ taskContext.exception # Undefined)
    /\ (Status = DONE /\ AtBoundary) =>
           /\ ~step(Machine).wasFetched
           /\ step(Machine).machine = Machine
           /\ runLoop(Machine) = Machine

----------------------------------------------------------------------------
(* The service API: exports.handler of ServiceAPI.js and the repository it
   calls. Every awaited call of the repository is one step of a handler
   invocation; invocations run concurrently on one repository. *)

\* the messages the queue of the model holds at most
MaxQueued == 1

\* the status codes of the handler
Forbidden == 403
BadRequest == 400
MethodNotAllowed == 405
NotFound == 404
Conflict == 409
ServiceUnavailable == 503
OK == 200
Created == 201

\* the resource types whose items are created once by POST
WriteOnce == {"certificate", "type", "document"}

\* the resource types that hold items by identifier
Kinds == WriteOnce \cup {"draft"}

\* the repository: whether the identifier of the requests exists as an item
\* of each kind, the messages on the queue, and how many create calls per
\* kind succeeded (history)
Repository(exists, queued) ==
    [items |-> [kind \in Kinds |-> exists], queued |-> queued,
     created |-> [kind \in WriteOnce |-> 0]]

\* a call of a repository function by an invocation (history)
Call(invocation, op, kind) ==
    [invocation EXCEPT !.calls = @ \cup {[op |-> op, kind |-> kind]}]

\* the certificate lookup of validateCredentials
Lookup == [op |-> "fetch", kind |-> "signer"]

\* return {statusCode: code}
Respond(invocation, code) ==
    [invocation EXCEPT !.pc = "returned", !.response = code]

\* the catch of the try around executeRequest
Unavailable(invocation) ==
    Respond([invocation EXCEPT !.raised = TRUE], ServiceUnavailable)

\* a validateCredentials that does not look at what notary.verify returns
validateCredentialsWithoutVerdict(credentials, promises, raised) ==
    IF credentials \in {"missing", "unparsable"}
    THEN [thrown |-> TRUE, lookedUp |-> FALSE]
    ELSE [thrown |-> raised \/ promises \/ credentials = "unknown",
          lookedUp |-> TRUE]

\* bali.parse of the Nebula-Credentials header, then validateCredentials:
\* the certificate is fetched without await, so when the repository returns
\* promises certificate.getValue is not a function; a signer without a
\* certificate gives no certificate to read the public key from
validateCredentials(credentials, promises, raised) ==
    IF credentials \in {"missing", "unparsable"}
    THEN [thrown |-> TRUE, lookedUp |-> FALSE]
    ELSE [thrown |-> raised \/ promises \/ credentials = "unknown"
                         \/ credentials = "forged",
          lookedUp |-> TRUE]

\* the second try block of the handler: the request parameters
parametersThrow(request) ==
    \/ request.method = "missing"
    \/ request.path = "missing"
    \/ request.body = "unparsable"

\* the first part of exports.handler, up to executeRequest
validate(invocation, promises, raised) ==
    LET validation == validateCredentials(invocation.request.credentials,
                                          promises, raised)
        looked == IF validation.lookedUp
                  THEN [invocation EXCEPT !.calls = @ \cup {Lookup},
                                          !.raised = raised]
                  ELSE invocation
    IN  IF validation.thrown THEN Respond(looked, Forbidden)
        ELSE IF parametersThrow(invocation.request)
        THEN Respond([looked EXCEPT !.validated = TRUE], BadRequest)
        ELSE [looked EXCEPT !.validated = TRUE, !.pc = "execute"]

\* certificateRequest, typeRequest and documentRequest up to their first
\* await: the three functions differ in the repository functions they name
writeOnceRequest(repository, invocation, kind, raised) ==
    LET method == invocation.request.method
        exists == repository.items[kind]
    IN  CASE method = "head" ->
                 LET called == Call(invocation, "exists", kind)
                 IN  IF raised THEN Unavailable(called)
                     ELSE Respond(called, IF exists THEN OK ELSE NotFound)
          [] method = "post" ->
                 LET called == Call(invocation, "exists", kind)
                 IN  IF raised THEN Unavailable(called)
                     ELSE IF exists THEN Respond(called, Conflict)
                     ELSE [called EXCEPT !.pc = "complete"]
          [] method = "get" ->
                 LET called == Call(invocation, "fetch", kind)
                 IN  IF raised THEN Unavailable(called)
                     ELSE Respond(called, IF exists THEN OK ELSE NotFound)
          [] OTHER -> Respond(invocation, MethodNotAllowed)

certificateRequest(repository, invocation, raised) ==
    writeOnceRequest(repository, invocation, "certificate", raised)

typeRequest(repository, invocation, raised) ==
    writeOnceRequest(repository, invocation, "type", raised)

documentRequest(repository, invocation, raised) ==
    writeOnceRequest(repository, invocation, "document", raised)

\* draftRequest up to its first await
draftRequest(repository, invocation, raised) ==
    LET method == invocation.request.method
    IN  CASE method = "head" ->
                 LET called == Call(invocation, "exists", "draft")
                 IN  IF raised THEN Unavailable(called)
                     ELSE Respond(called, IF repository.items["draft"]
                                          THEN OK ELSE NotFound)
          [] method = "put" ->
                 LET called == Call(invocation, "exists", "document")
                 IN  IF raised THEN Unavailable(called)
                     ELSE IF repository.items["document"]
                     THEN Respond(called, Conflict)
                     ELSE [called EXCEPT !.pc = "complete"]
          [] method = "get" ->
                 LET called == Call(invocation, "fetch", "draft")
                 IN  IF raised THEN Unavailable(called)
                     ELSE Respond(called, IF repository.items["draft"]
                                          THEN OK ELSE NotFound)
          [] method = "delete" ->
                 LET called == Call(invocation, "exists", "draft")
                 IN  IF raised THEN Unavailable(called)
                     ELSE IF repository.items["draft"]
                     THEN [called EXCEPT !.pc = "complete"]
                     ELSE Respond(called, NotFound)
          [] OTHER -> Respond(invocation, MethodNotAllowed)

\* executeRequest up to the first await of the function it dispatches to;
\* queueRequest has one await only and is part of execute
executeRequest(repository, invocation, raised) ==
    LET type == invocation.request.path
    IN  CASE type = "certificate" ->
                 [repository |-> repository,
                  invocation |-> certificateRequest(repository, invocation, raised)]
          [] type = "type" ->
                 [repository |-> repository,
                  invocation |-> typeRequest(repository, invocation, raised)]
          [] type = "draft" ->
                 [repository |-> repository,
                  invocation |-> draftRequest(repository, invocation, raised)]
          [] type = "document" ->
                 [repository |-> repository,
                  invocation |-> documentRequest(repository, invocation, raised)]
          [] type = "queue" /\ invocation.request.method = "put" ->
                 LET called == Call(invocation, "queue", "queue")
                 IN  IF raised
                     THEN [repository |-> repository,
                           invocation |-> Unavailable(called)]
                     ELSE [repository |->
                               [repository EXCEPT !.queued = @ + 1],
                           invocation |->
                               Respond([called EXCEPT !.wrote = TRUE], Created)]
          [] type = "queue" /\ invocation.request.method = "get" ->
                 LET called == Call(invocation, "dequeue", "queue")
                 IN  IF raised
                     THEN [repository |-> repository,
                           invocation |-> Unavailable(called)]
                     ELSE IF repository.queued > 0
                     THEN [repository |->
                               [repository EXCEPT !.queued = @ - 1],
                           invocation |->
                               Respond([called EXCEPT !.wrote = TRUE], OK)]
                     ELSE [repository |-> repository,
                           invocation |-> Respond(called, NotFound)]
          [] type = "queue" ->
                 [repository |-> repository,
                  invocation |-> Respond(invocation, MethodNotAllowed)]
          [] OTHER ->
                 [repository |-> repository,
                  invocation |-> Respond(invocation, BadRequest)]

\* the second await of a request: createCertificate, createType or
\* createDocument after POST, saveDraft after PUT, deleteDraft after DELETE
completeRequest(repository, invocation, raised) ==
    LET type == invocation.request.path
        method == invocation.request.method
        op == CASE method = "post" -> "create"
                [] method = "put" -> "save"
                [] OTHER -> "delete"
        called == Call(invocation, op, type)
    IN  IF raised
        THEN [repository |-> repository, invocation |-> Unavailable(called)]
        ELSE [repository |->
                  IF method = "post"
                  THEN [repository EXCEPT !.items[type] = TRUE,
                                          !.created[type] = @ + 1]
                  ELSE [repository EXCEPT !.items[type] = (method = "put")],
              invocation |->
                  Respond([called EXCEPT !.wrote = TRUE],
                          IF method = "delete" THEN OK ELSE Created)]

\* the requests a handler invocation receives: the Nebula-Credentials header
\* (absent, not parsable, of a signer without certificate, with a signature
\* that does not verify, or valid), httpMethod, the resource type that
\* starts the path, and the body
Credentials == {"missing", "unparsable", "unknown", "forged", "valid"}
Methods == {"missing", "head", "post", "put", "get", "delete"}
Paths == {"missing", "certificate", "type", "draft", "document", "queue", "other"}
Bodies == {"none", "unparsable", "document"}

Requests ==
    [credentials : Credentials, method : Methods, path : Paths, body : Bodies]

\* the requests of a second client that creates an item at the same time
ConcurrentRequests ==
    [credentials : {"valid"}, method : {"post"}, path : WriteOnce,
     body : {"document"}]

\* the handler invocations that run concurrently
Invocations == {"first", "second"}

\* an invocation of exports.handler that has not run yet
Invocation(request) ==
    [pc |-> "validate", request |-> request, response |-> 0, calls |-> {},
     validated |-> FALSE, raised |-> FALSE, wrote |-> FALSE]

\* promises: whether the functions of the repository return promises (the
\* repository module is not part of the sources; the handler awaits every
\* call but the one of validateCredentials)
ServiceInit ==
    /\ \E promises \in BOOLEAN, exists \in BOOLEAN, queued \in 0..MaxQueued,
          request \in Requests, concurrent \in ConcurrentRequests :
           service = [stage |-> "serving",
                      promises |-> promises,
                      existed |-> exists,
                      repository |-> Repository(exists, queued),
                      invocations |->
                          [i \in Invocations |->
                              IF i = "first" THEN Invocation(request)
                              ELSE Invocation(concurrent)]]
    /\ NoProcessor
    /\ codec = NoCodec
    /\ tree = NoTree
    /\ members = {}
    /\ bvm = NoBvm
    /\ sets = NoSets

\* an invocation runs up to executeRequest
ValidateRequest ==
    /\ \E i \in Invocations, raised \in BOOLEAN :
           /\ service.invocations[i].pc = "validate"
           /\ service' = [service EXCEPT !.invocations[i] =
                              validate(@, service.promises, raised)]
    /\ UNCHANGED <<machineVars, codecVars, setVars, bvmVars, operandVars>>

\* an invocation runs executeRequest up to the answer of its first call of
\* the repository
ExecuteRequest ==
    /\ \E i \in Invocations, raised \in BOOLEAN :
           /\ service.invocations[i].pc = "execute"
           /\ LET executed == executeRequest(service.repository,
                                             service.invocations[i], raised)
              IN  /\ executed.repository.queued <= MaxQueued
                  /\ service' = [service EXCEPT
                                     !.repository = executed.repository,
                                     !.invocations[i] = executed.invocation]
    /\ UNCHANGED <<machineVars, codecVars, setVars, bvmVars, operandVars>>

\* an invocation runs its create, save or delete and returns
CompleteRequest ==
    /\ \E i \in Invocations, raised \in BOOLEAN :
           /\ service.invocations[i].pc = "complete"
           /\ LET completed == completeRequest(service.repository,
                                               service.invocations[i], raised)
              IN  service' = [service EXCEPT
                                  !.repository = completed.repository,
                                  !.invocations[i] = completed.invocation]
    /\ UNCHANGED <<machineVars, codecVars, setVars, bvmVars, operandVars>>

ServiceNext ==
    \/ ValidateRequest
    \/ ExecuteRequest
    \/ CompleteRequest

ServiceSpec == ServiceInit /\ [][ServiceNext]_vars

\* the invocations of a deployed service
Serving == IF service.stage = "serving" THEN Invocations ELSE {}

\* C38: a request whose credentials are missing, unparsable or fail
\* validation is answered 403 and causes no call of the repository other
\* than the certificate lookup of the validation itself; no invocation calls
\* exists, fetch, create, save, delete, queue or dequeue before its
\* validation has succeeded.
C38_NothingBeforeValidation ==
    \A i \in Serving :
        LET invocation == service.invocations[i]
        IN  /\ invocation.request.credentials # "valid" =>
                   /\ invocation.calls \subseteq {Lookup}
                   /\ ~invocation.wrote
                   /\ invocation.pc \in {"validate", "returned"}
                   /\ invocation.pc = "returned" =>
                          invocation.response = Forbidden
            /\ invocation.calls \ {Lookup} # {} =>
                   /\ invocation.validated
                   /\ invocation.request.credentials = "valid"

\* a POST with a forged signature was answered 403 after the certificate
\* lookup alone, while the POST of another client with valid credentials
\* created the item
C38_Witness ==
    /\ service.stage = "serving"
    /\ service.invocations["first"].request.credentials = "forged"
    /\ service.invocations["first"].request.method = "post"
    /\ service.invocations["first"].response = Forbidden
    /\ service.invocations["first"].calls = {Lookup}
    /\ service.invocations["second"].response = Created


\* the invocations that POST an item of a write-once kind with valid
\* credentials and well-formed parameters
Creators(kind) ==
    {i \in Serving :
        LET request == service.invocations[i].request
        IN  /\ request.credentials = "valid"
            /\ request.method = "post"
            /\ request.path = kind
            /\ request.body # "unparsable"}

\* C39: certificates, types and documents are write-once: a POST for an
\* identifier that already exists returns 409 and does not call create, and
\* in every interleaving of concurrent invocations on one identifier at most
\* one POST calls create and returns 201, because no create of another
\* request comes between the exists-check of a POST and its create.
C39_CreatedOnce ==
    \A kind \in WriteOnce :
        /\ \A i \in Creators(kind) :
               LET invocation == service.invocations[i]
               IN  /\ (service.existed /\ invocation.pc = "returned"
                           /\ ~invocation.raised) =>
                          /\ invocation.response = Conflict
                          /\ [op |-> "create", kind |-> kind] \notin invocation.calls
                   /\ invocation.pc = "complete" =>
                          ~service.repository.items[kind]
        /\ Cardinality({i \in Creators(kind) :
                           service.invocations[i].response = Created}) <= 1
        /\ service.stage = "serving" => service.repository.created[kind] <= 1


\* the methods executeRequest supports for a resource type
Supported(type) ==
    CASE type \in WriteOnce -> {"head", "post", "get"}
      [] type = "draft" -> {"head", "put", "get", "delete"}
      [] type = "queue" -> {"put", "get"}
      [] OTHER -> {}

\* C40: the handler always returns a response with one status code and never
\* throws: 403 on a credential failure, 400 on an unparsable request or an
\* unknown resource type, 405 on a method the type does not support, 503
\* when the repository raises, 404, 409, 200 or 201 otherwise; an invocation
\* that returns 400, 403, 404, 405 or 409 has not changed the repository.
C40_OneStatusPerRequest ==
    \A i \in Serving :
        LET invocation == service.invocations[i]
            request == invocation.request
            response == invocation.response
        IN  invocation.pc = "returned" =>
                /\ response \in {Forbidden, BadRequest, MethodNotAllowed,
                                 NotFound, Conflict, ServiceUnavailable,
                                 OK, Created}
                /\ response = Forbidden <=> request.credentials # "valid"
                /\ response = ServiceUnavailable <=>
                       (request.credentials = "valid" /\ invocation.raised)
                /\ (request.credentials = "valid" /\ ~invocation.raised) =>
                       /\ response = BadRequest <=>
                              (parametersThrow(request)
                                   \/ request.path \notin Kinds \cup {"queue"})
                       /\ response = MethodNotAllowed <=>
                              (/\ ~parametersThrow(request)
                               /\ request.path \in Kinds \cup {"queue"}
                               /\ request.method \notin Supported(request.path))
                /\ response \in {Forbidden, BadRequest, MethodNotAllowed,
                                 NotFound, Conflict} => ~invocation.wrote

====
